---------------------------- MODULE Spec2Model ----------------------------
(***************************************************************************)
(* A model of the NH education-aid ingestion pipeline (import_data.py):    *)
(* the value parser, the name normalizer, the entity registry, the upsert  *)
(* layer, the era parsers, the aggregator and main.                        *)
(*                                                                         *)
(* Text is a sequence of one-character strings, so that the regular        *)
(* expressions and the str methods of the code are computed character by   *)
(* character.  Python's None is the one-element sequence None for text    *)
(* and the empty sequence NULL for SQL values; a number n is <<n>>.        *)
(***************************************************************************)
EXTENDS Integers, Sequences, FiniteSets, Bags, TLC

VARIABLES
    \* ---- name normalizer runs (SpecNorm)
    labelA,        \* a raw label
    labelB,        \* a second raw label
    normA,         \* normalize_name(labelA) once computed, else Pending
    normB,         \* normalize_name(labelB) once computed, else Pending
    renormA,       \* normalize_name(normA) once computed, else Pending
    \* ---- the store
    db,            \* the SQLite database: one field for each table
    \* ---- direct calls of the registry and of the upsert layer
    call,          \* the last call: its arguments and what it returned
    resolved,      \* the id that get_or_create_muni returned for each name, first call
    \* ---- runs of main (Spec, SpecMain)
    pos,           \* how far main has got through its import calls
    nread,         \* the number of rows read in this run
    status,        \* "idle", "running", "done" or "crashed"
    files,         \* the rows of every file of the data directory
    runs,          \* the number of runs of main that have ended
    firstTotals,   \* statewide_totals as the first run left it
    xlsx           \* the .xlsx copy of the FY27 file in the data directory

normVars == <<labelA, labelB, normA, normB, renormA>>
storeVars == <<call, resolved>>

pipeVars == <<pos, nread, status>>
mainVars == <<files, runs, firstTotals, xlsx>>

vars == <<normVars, db, storeVars, pipeVars, mainVars>>

(***************************************************************************)
(* Characters and strings                                                  *)
(***************************************************************************)
Chars(s) == [i \in 1..Len(s) |-> SubSeq(s, i, i)]

None == <<"None">>

\* The one value of a set of one value.  Only({ e(v) : v \in {x} }) is e(x)
\* with x evaluated once.
Only(S) == CHOOSE v \in S : TRUE

UpperAlpha == Chars("ABCDEFGHIJKLMNOPQRSTUVWXYZ")
LowerAlpha == Chars("abcdefghijklmnopqrstuvwxyz")
Digits == Chars("0123456789")

IndexIn(c, alpha) ==
    IF \E i \in 1..Len(alpha) : alpha[i] = c
    THEN CHOOSE i \in 1..Len(alpha) : alpha[i] = c
    ELSE 0

IsUpper(c) == IndexIn(c, UpperAlpha) > 0
IsLower(c) == IndexIn(c, LowerAlpha) > 0
IsAlpha(c) == IsUpper(c) \/ IsLower(c)
IsDigit(c) == IndexIn(c, Digits) > 0
IsSpace(c) == c = " "

\* The character classes \s, [\*\#] and \d of the regular expressions
SpaceClass == { " " }
MarkClass == { "*", "#" }
DigitClass == { Digits[i] : i \in 1..Len(Digits) }

LowerChar(c) == IF IsUpper(c) THEN LowerAlpha[IndexIn(c, UpperAlpha)] ELSE c
UpperChar(c) == IF IsLower(c) THEN UpperAlpha[IndexIn(c, LowerAlpha)] ELSE c

\* str.lower()
Lower(s) == [i \in 1..Len(s) |-> LowerChar(s[i])]

\* str.title(): a cased character is upper-cased when the character before it
\* is not cased, and lower-cased otherwise.
Title(s) ==
    [i \in 1..Len(s) |->
        IF i > 1 /\ IsAlpha(s[i - 1]) THEN LowerChar(s[i]) ELSE UpperChar(s[i])]

\* The number of characters at the end (start) of s that are all in class.
TrailingRun(s, class) ==
    CHOOSE k \in 0..Len(s) :
        /\ \A i \in (Len(s) - k + 1)..Len(s) : s[i] \in class
        /\ (k = Len(s) \/ s[Len(s) - k] \notin class)

LeadingRun(s, class) ==
    CHOOSE k \in 0..Len(s) :
        /\ \A i \in 1..k : s[i] \in class
        /\ (k = Len(s) \/ s[k + 1] \notin class)

DropLast(s, k) == SubSeq(s, 1, Len(s) - k)
DropFirst(s, k) == SubSeq(s, k + 1, Len(s))

\* str.strip()
Strip(s) ==
    Only({ DropLast(l, TrailingRun(l, SpaceClass)) :
           l \in { DropFirst(s, LeadingRun(s, SpaceClass)) } })

\* str.startswith / str.endswith / "in"
StartsWith(s, p) == Len(p) <= Len(s) /\ SubSeq(s, 1, Len(p)) = p
EndsWith(s, p) == Len(p) <= Len(s) /\ SubSeq(s, Len(s) - Len(p) + 1, Len(s)) = p
Contains(s, p) ==
    \E i \in 1..(Len(s) - Len(p) + 1) : SubSeq(s, i, i + Len(p) - 1) = p

\* re.sub(r'\s+', ' ', s): every run of whitespace becomes one space.
RECURSIVE CollapseSpaces(_)
CollapseSpaces(s) ==
    IF s = <<>> THEN <<>>
    ELSE IF IsSpace(Head(s))
         THEN <<" ">> \o CollapseSpaces(DropFirst(s, LeadingRun(s, SpaceClass)))
         ELSE <<Head(s)>> \o CollapseSpaces(Tail(s))

\* str.replace(old, new): left to right, non-overlapping.
RECURSIVE Replace(_, _, _)
Replace(s, old, new) ==
    IF s = <<>> THEN <<>>
    ELSE IF StartsWith(s, old)
         THEN new \o Replace(DropFirst(s, Len(old)), old, new)
         ELSE <<Head(s)>> \o Replace(Tail(s), old, new)


(***************************************************************************)
(* Value Parser.  A number is an integer count of hundredths (cents), so   *)
(* "1,234.56" is 123456; the cells of the model have at most two decimals. *)
(***************************************************************************)
NULL == <<>>
Num(n) == <<n>>
ValueOf(v) == v[1]
Dollars(n) == n * 100

\* str.replace(c, '') for every character c of a set
RECURSIVE RemoveChars(_, _)
RemoveChars(s, chars) ==
    IF s = <<>> THEN <<>>
    ELSE IF Head(s) \in chars THEN RemoveChars(Tail(s), chars)
         ELSE <<Head(s)>> \o RemoveChars(Tail(s), chars)

\* The number a string of decimal digits denotes.
RECURSIVE DigitsValue(_)
DigitsValue(s) ==
    IF s = <<>> THEN 0
    ELSE 10 * DigitsValue(DropLast(s, 1)) + (IndexIn(s[Len(s)], Digits) - 1)

\* float('nan'), float('inf') and float('-inf'): the floats that are no decimal
\* number (two elements, so that none is taken for a number <<n>>).
NaN == <<"float", "nan">>
Infinity == <<"float", "inf">>
NegInfinity == <<"float", "-inf">>

\* A wrong sign step: the parentheses are dropped and the sign is not changed.
NegateDropped(v) == v

\* -result
Negate(v) ==
    IF v = NaN THEN NaN
    ELSE IF v = Infinity THEN NegInfinity
    ELSE IF v = NegInfinity THEN Infinity
    ELSE Num(0 - ValueOf(v))

\* float(s): after an optional sign, "nan", "inf" or "infinity" in any case,
\* or a plain decimal numeral (digits and an optional point with up to two
\* more digits); ValueError (NULL) otherwise.
PyFloat(s) ==
    Only({ Only({ Only({ Only({
        IF Lower(body) = Chars("nan") THEN NaN
        ELSE IF Lower(body) \in { Chars("inf"), Chars("infinity") }
        THEN (IF s[1] = "-" THEN NegInfinity ELSE Infinity)
        ELSE IF ~(/\ Len(int) + Len(frac) > 0
                  /\ rest = <<>> \/ rest[1] = "."
                  /\ \A i \in 1..Len(frac) : frac[i] \in DigitClass
                  /\ Len(frac) <= 2)
        THEN NULL
        ELSE Only({ IF s # <<>> /\ s[1] = "-" THEN Num(0 - cents) ELSE Num(cents) :
                    cents \in { DigitsValue(int) * 100
                                + (IF Len(frac) = 0 THEN 0
                                   ELSE IF Len(frac) = 1 THEN 10 * DigitsValue(frac)
                                   ELSE DigitsValue(frac)) } }) :
        frac \in { IF rest # <<>> /\ rest[1] = "." THEN Tail(rest) ELSE <<>> } }) :
        rest \in { DropFirst(body, Len(int)) } }) :
        int \in { SubSeq(body, 1, LeadingRun(body, DigitClass)) } }) :
        body \in { IF s # <<>> /\ s[1] \in {"+", "-"} THEN Tail(s) ELSE s } })

\* A wrong sentinel list: the broken-reference marker is missing.
FirstSentinelsWithoutRef == { <<>>, Chars("-"), Chars("- "), Chars(" -   ") }

\* if not val or val == '-' or val == '- ' or val == ' -   ' or val == '#REF!'
FirstSentinels ==
    { <<>>, Chars("-"), Chars("- "), Chars(" -   "), Chars("#REF!") }

\* parse_money(val): NULL for None, else what float() returns or NULL.
parse_money(val) ==
    IF val = None THEN NULL
    ELSE Only({
        \* val = str(val).strip()
        IF v1 \in FirstSentinels THEN Num(0)
        ELSE Only({
            \* the dollar signs and quotes removed, stripped again
            IF v2 \in { <<>>, Chars("-"), Chars("-   ") } THEN Num(0)
            ELSE Only({ Only({
                \* the parentheses, commas and spaces removed
                IF v4 \in { <<>>, Chars("-") } THEN Num(0)
                ELSE Only({ IF result = NULL THEN NULL
                            ELSE IF negative THEN Negate(result)
                            ELSE result :
                            result \in { PyFloat(v4) } }) :
                v4 \in { RemoveChars(IF negative THEN SubSeq(v2, 2, Len(v2) - 1)
                                     ELSE v2, {",", " "}) } }) :
                negative \in { StartsWith(v2, <<"(">>) /\ EndsWith(v2, <<")">>) } }) :
            v2 \in { Strip(RemoveChars(v1, {"$", "\"", "'"})) } }) :
        v1 \in { Strip(val) } })

(***************************************************************************)
(* Name Normalizer                                                         *)
(***************************************************************************)
\* NAME_FIXES, as a set of <<key, value>> pairs (the dict literal repeats two
\* of its keys; a dict keeps one entry for each).
NAME_FIXES ==
    { <<Chars("Hart's Location"), Chars("Harts Location")>>,
      <<Chars("Hart's Loc"), Chars("Harts Location")>>,
      <<Chars("Waterville Valley"), Chars("Waterville Valley")>>,
      <<Chars("New Castle"), Chars("New Castle")>>,
      <<Chars("Newcastle"), Chars("New Castle")>>,
      <<Chars("Wentworth's Location"), Chars("Wentworths Location")>>,
      <<Chars("Wentworth's Loc"), Chars("Wentworths Location")>> }

NameFixKeys == { kv[1] : kv \in NAME_FIXES }

NameFixOf(key) == (CHOOSE kv \in NAME_FIXES : kv[1] = key)[2]

\* A wrong correction step: the abbreviated "... Loc" spellings are not looked up.
ApplyNameFixesNoAbbrev(name) ==
    IF name \in NameFixKeys /\ ~EndsWith(name, Chars("Loc"))
    THEN NameFixOf(name)
    ELSE name

\* if name in NAME_FIXES: name = NAME_FIXES[name]
ApplyNameFixes(name) ==
    IF name \in NameFixKeys THEN NameFixOf(name) ELSE name

\* A wrong list of non-town entries: the state-total labels are missing.
NonTownEntriesWithoutStateTotal ==
    { <<>>, Chars("state"), Chars("state ave"), Chars("state average"),
      Chars("true"), Chars("false"), Chars("#ref!"), Chars("nan"),
      Chars("none"), Chars("profile"), Chars("loc #"), Chars("district"),
      Chars("total"), Chars("entitlement"), Chars("footnote"),
      Chars("districts"), Chars("base adequacy"), Chars("charter schools"),
      Chars("district id"), Chars("district name") }

\* The tuple of non-town entries that normalize_name rejects.
NonTownEntries ==
    { <<>>, Chars("state"), Chars("state total"), Chars("state totals"),
      Chars("state ave"), Chars("state average"), Chars("true"), Chars("false"),
      Chars("#ref!"), Chars("nan"), Chars("none"), Chars("profile"),
      Chars("loc #"), Chars("statewide total"), Chars("district"),
      Chars("total"), Chars("entitlement"), Chars("footnote"),
      Chars("districts"), Chars("base adequacy"), Chars("charter schools"),
      Chars("district id"), Chars("district name") }

reject_words ==
    { Chars("expenditure"), Chars("footnote"), Chars("school year"),
      Chars("education aid"), Chars("equal opportunity"), Chars("department of"),
      Chars("tax rate"), Chars("tax assessment"), Chars("cover the"),
      Chars("budget"), Chars("revenue"), Chars("when tax"), Chars("academy"),
      Chars("compass classical"), Chars("village district"), Chars("co-op"),
      Chars("school district"), Chars("fall mountain"), Chars("dresden"),
      Chars("contoocook"), Chars("exeter region") }

\* Names longer than this are taken for header text.
MaxNameLen == 30

\* re.sub(r'[\*\#]+$', '', name)
StripTrailingMarks(s) == DropLast(s, TrailingRun(s, MarkClass))

\* re.sub(r'\s+\d+$', '', name): the digits that end the name go, with the
\* whitespace before them, when there is whitespace before them.
StripTrailingNumber(s) ==
    Only({ Only({ IF d > 0 /\ w > 0 THEN DropLast(s, d + w) ELSE s :
                  w \in { TrailingRun(DropLast(s, d), SpaceClass) } }) :
           d \in { TrailingRun(s, DigitClass) } })

\* re.sub(r'\s+WORD\s*\*?$', '', name, flags=re.IGNORECASE), word in lower case.
StripSuffixWord(s, word) ==
    Only({ Only({ Only({
        IF EndsWith(Lower(s2), word) /\ w > 0 THEN DropLast(s2, Len(word) + w)
        ELSE s :
        w \in { TrailingRun(DropLast(s2, Len(word)), SpaceClass) } }) :
        s2 \in { DropLast(s1, TrailingRun(s1, SpaceClass)) } }) :
        s1 \in { IF s # <<>> /\ s[Len(s)] = "*" THEN DropLast(s, 1) ELSE s } })

\* The second half of normalize_name: the rejections, the correction table,
\* the title case and the possessive repair.
normalize_tail(name) ==
    Only({ IF name = <<>> \/ lower \in NonTownEntries THEN None
           ELSE IF \E rw \in reject_words : Contains(lower, rw) THEN None
           ELSE IF Len(name) > MaxNameLen THEN None
           ELSE Replace(Title(ApplyNameFixes(name)), Chars("'S "), Chars("'s ")) :
           lower \in { Lower(name) } })

\* normalize_name(name); n1 .. n7 are the name after each of its first seven
\* statements.
normalize_name(name) ==
    IF name = None \/ name = <<>> THEN None
    ELSE Only({ Only({ Only({ Only({ Only({ Only({ Only({
        normalize_tail(n7) :
        n7 \in { Strip(StripSuffixWord(n6, Chars("regional"))) } }) :
        n6 \in { Strip(StripSuffixWord(n5, Chars("coop"))) } }) :
        n5 \in { Strip(StripSuffixWord(n4, Chars("cooperative"))) } }) :
        n4 \in { Strip(StripTrailingNumber(n3)) } }) :
        n3 \in { Strip(CollapseSpaces(n2)) } }) :
        n2 \in { Strip(StripTrailingMarks(n1)) } }) :
        n1 \in { Strip(name) } })

(***************************************************************************)
(* SQL values and tables                                                   *)
(*                                                                         *)
(* A table is a bag of rows: SQLite's UNIQUE constraints do not hold for   *)
(* rows with a NULL in the key, so equal rows can be stored several times. *)
(* The rowid of the category tables is never read and is left out; the id  *)
(* of municipalities is kept.                                              *)
(***************************************************************************)
\* Python's (v or 0) and the truth value of a number or None
OrZero(v) == IF v = NULL THEN 0 ELSE v[1]
Truthy(v) == v # NULL /\ v[1] # 0

AdequacyColumns ==
    { "adm", "base_adequacy_aid", "fr_aid", "sped_differentiated_aid",
      "ell_aid", "home_ed_aid", "grade3_reading_aid", "total_cost_adequate_ed",
      "swept", "extraordinary_needs_grant", "hold_harmless_grant",
      "fiscal_capacity_aid", "stabilization_grant", "total_adequacy_grant",
      "total_state_grant", "base_cost_per_pupil", "swept_rate", "fr_adm",
      "sped_adm", "ell_adm" }
SpedColumns ==
    { "num_students", "district_liability", "cost_3_5_to_10x",
      "num_students_over_10x", "cost_over_10x", "total_district_cost",
      "entitlement", "appropriation" }
BuildingColumns == { "current_year_aid", "prior_year_shortfall", "total_entitlement" }
CharterColumns == { "adm", "per_pupil_rate", "total_aid", "fr_aid", "sped_aid", "ell_aid" }
CteColumns == { "tuition_payment", "transportation_payment", "total_payment" }
KindergartenColumns == { "adm", "per_pupil_rate", "total_aid" }

\* create_tables on a new database file: every table is empty.
create_tables ==
    [ municipalities |-> {},
      adequacy_aid |-> EmptyBag,
      sped_aid |-> EmptyBag,
      building_aid |-> EmptyBag,
      charter_school_aid |-> EmptyBag,
      cte_aid |-> EmptyBag,
      kindergarten_aid |-> EmptyBag,
      statewide_totals |-> {} ]

\* A row of a municipality-keyed table: the given columns, NULL elsewhere.
MuniRow(columns, muni_id, fy, given) ==
    [c \in {"municipality_id", "fiscal_year"} \cup columns |->
        IF c = "municipality_id" THEN muni_id
        ELSE IF c = "fiscal_year" THEN fy
        ELSE IF c \in DOMAIN given THEN given[c] ELSE NULL]

RECURSIVE SumCounts(_, _)
SumCounts(table, rows) ==
    IF rows = {} THEN 0
    ELSE LET r == CHOOSE x \in rows : TRUE
         IN  table[r] + SumCounts(table, rows \ {r})

\* The rows of a municipality-keyed table with this key.  In SQL a comparison
\* with NULL is never true, so a NULL id selects nothing.
RowsWithKey(table, muni_id, fy) ==
    { r \in BagToSet(table) :
        /\ muni_id # NULL
        /\ r.municipality_id = muni_id
        /\ r.fiscal_year = fy }

\* The number of rows of a municipality-keyed table with this key, NULL ids
\* counted as one key.
CountKey(table, muni_id, fy) ==
    SumCounts(table, { r \in BagToSet(table) :
                          r.municipality_id = muni_id /\ r.fiscal_year = fy })

\* INSERT: one more copy of the row.
InsertRow(table, row) == table (+) SetToBag({row})

\* UPDATE ... SET: every row r of `rows` becomes set[r].
UpdateRows(table, rows, set) ==
    LET After(r) == IF r \in rows THEN set[r] ELSE r
        image == { After(r) : r \in BagToSet(table) }
    IN  [x \in image |->
            SumCounts(table, { r \in BagToSet(table) : After(r) = x })]

\* DELETE of the rows in `rows`.
DeleteRows(table, rows) == [r \in BagToSet(table) \ rows |-> table[r]]

\* INSERT OR REPLACE into a table with UNIQUE(municipality_id, fiscal_year):
\* the rows that conflict with the new one are deleted, then it is inserted.
\* A replacement that keeps the stored value of a column whose new value is
\* null, as the UPDATE of upsert_adequacy does.
InsertOrReplaceMerging(table, row) ==
    LET Merged(r, old) ==
            [ c \in DOMAIN r |->
                IF c \in { "municipality_id", "fiscal_year" } \/ old = {}
                THEN r[c]
                ELSE IF r[c] = NULL THEN (CHOOSE o \in old : TRUE)[c]
                ELSE r[c] ]
        Replaced(t, r) ==
            InsertRow(DeleteRows(t, RowsWithKey(t, r.municipality_id,
                                                r.fiscal_year)),
                      Merged(r, RowsWithKey(t, r.municipality_id, r.fiscal_year)))
    IN  Only({ Replaced(t, r) : t \in {table}, r \in {row} })

InsertOrReplace(table, row) ==
    LET Replaced(t, r) ==
            InsertRow(DeleteRows(t, RowsWithKey(t, r.municipality_id,
                                                r.fiscal_year)),
                      r)
    IN  Only({ Replaced(t, r) : t \in {table}, r \in {row} })

(***************************************************************************)
(* Input rows.  A row is a sequence of cells, a cell the text csv.reader   *)
(* yields (None for an empty spreadsheet cell); Cell counts from 0 as the  *)
(* code does.                                                              *)
(***************************************************************************)
Cell(row, i) == row[i + 1]


\* re.match(r'^[A-Za-z]', s) and re.match(r'^[A-Z][a-z]', s)
MatchLetter(s) == s # <<>> /\ IsAlpha(s[1])
MatchCapLower(s) == Len(s) >= 2 /\ IsUpper(s[1]) /\ IsLower(s[2])

\* s.lower().startswith(prefixes) and s.lower() in words
LowerStartsWith(s, prefixes) ==
    \E p \in prefixes : StartsWith(Lower(s), Chars(p))
LowerIn(s, words) == \E w \in words : Lower(s) = Chars(w)

\* A name the parsers go on with: neither None nor empty.
IsName(name) == name \notin { None, <<>> }

\* Base cost per pupil (cents) and SWEPT rate (thousandths of a dollar per
\* $1,000) by fiscal year; dict.get gives None for a year not listed.
BASE_COST_PER_PUPIL ==
    [ fy \in {2004} \cup (2006..2027) |->
        CASE fy = 2004 -> 339000
          [] fy \in 2006..2009 -> 391700
          [] fy \in 2010..2013 -> 345000
          [] fy = 2014 -> 349830
          [] fy \in 2015..2016 -> 356127
          [] fy \in 2017..2018 -> 363606
          [] fy \in 2019..2021 -> 370878
          [] fy \in 2022..2023 -> 378666
          [] fy = 2024 -> 410000
          [] fy = 2025 -> 418200
          [] fy = 2026 -> 426564
          [] fy = 2027 -> 435000 ]
SWEPT_RATES ==
    [ fy \in {2004} \cup (2006..2027) |->
        CASE fy = 2004 -> 4920 [] fy = 2006 -> 2840 [] fy = 2007 -> 2515
          [] fy = 2008 -> 2240 [] fy = 2009 -> 2140 [] fy = 2010 -> 2135
          [] fy = 2011 -> 2190 [] fy = 2012 -> 2325 [] fy = 2013 -> 2390
          [] fy = 2014 -> 2435 [] fy = 2015 -> 2480 [] fy = 2016 -> 2390
          [] fy = 2017 -> 2310 [] fy = 2018 -> 2260 [] fy = 2019 -> 2140
          [] fy = 2020 -> 2040 [] fy = 2021 -> 1925 [] fy = 2022 -> 1880
          [] fy = 2023 -> 1880 [] fy = 2024 -> 1380 [] fy = 2025 -> 1220
          [] fy = 2026 -> 1120 [] fy = 2027 -> 1060 ]
Get(dict, key) == IF key \in DOMAIN dict THEN Num(dict[key]) ELSE NULL

(***************************************************************************)
(* Entity Registry                                                         *)
(***************************************************************************)
\* cursor.lastrowid of an INSERT into a table with INTEGER PRIMARY KEY
NextRowId(rows) ==
    IF rows = {} THEN 1
    ELSE (CHOOSE r \in rows : \A q \in rows : q.id <= r.id).id + 1

\* A registry that inserts without looking the name up first.
get_or_create_muni_always_insert(d, name) ==
    LET id == NextRowId(d.municipalities)
        Create(n) ==
            IF n = None \/ n = <<>> THEN [db |-> d, id |-> NULL]
            ELSE [db |-> [d EXCEPT !.municipalities = @ \cup {[id |-> id, name |-> n]}],
                  id |-> Num(id)]
    IN  Only({ Create(n) : n \in { normalize_name(name) } })

\* get_or_create_muni(cursor, name): the database after the call and the id
\* returned (NULL for None).
get_or_create_muni(d, name) ==
    LET id == NextRowId(d.municipalities)
        GetOrCreate(n) ==
            LET found == { m \in d.municipalities : m.name = n }
            IN  IF n = None \/ n = <<>> THEN [db |-> d, id |-> NULL]
                ELSE IF found # {}
                THEN [db |-> d, id |-> Num((CHOOSE m \in found : TRUE).id)]
                ELSE [db |-> [d EXCEPT !.municipalities =
                                 @ \cup {[id |-> id, name |-> n]}],
                      id |-> Num(id)]
    IN  Only({ GetOrCreate(n) : n \in { normalize_name(name) } })

(***************************************************************************)
(* Upsert Layer                                                            *)
(***************************************************************************)
\* An upsert that writes every passed field, None included.
upsert_adequacy_writes_none(d, muni_id, fy, kwargs) ==
    LET Upsert(e, id, kw) ==
            LET existing == RowsWithKey(e.adequacy_aid, id, fy)
                set == [r \in existing |->
                          [c \in DOMAIN r |-> IF c \in DOMAIN kw THEN kw[c] ELSE r[c]]]
            IN  IF id = NULL THEN e
                ELSE IF existing # {}
                THEN [e EXCEPT !.adequacy_aid = UpdateRows(@, existing, set)]
                ELSE [e EXCEPT !.adequacy_aid =
                         InsertRow(@, MuniRow(AdequacyColumns, id, fy, kw))]
    IN  Only({ Upsert(e, id, kw) : e \in {d}, id \in {muni_id}, kw \in {kwargs} })

\* An upsert that replaces the stored record by the passed fields.
upsert_adequacy_replaces(d, muni_id, fy, kwargs) ==
    IF muni_id = NULL THEN d
    ELSE [d EXCEPT !.adequacy_aid =
             InsertOrReplace(@, MuniRow(AdequacyColumns, muni_id, fy, kwargs))]

\* upsert_adequacy(cursor, muni_id, fy, **kwargs)
upsert_adequacy(d, muni_id, fy, kwargs) ==
    LET Upsert(e, id, kw) ==
            LET existing == RowsWithKey(e.adequacy_aid, id, fy)
                sets == { c \in DOMAIN kw : kw[c] # NULL }
                set == [r \in existing |->
                          [c \in DOMAIN r |-> IF c \in sets THEN kw[c] ELSE r[c]]]
            IN  IF id = NULL THEN e
                ELSE IF existing # {}
                THEN IF sets # {}
                     THEN [e EXCEPT !.adequacy_aid = UpdateRows(@, existing, set)]
                     ELSE e
                ELSE [e EXCEPT !.adequacy_aid =
                         InsertRow(@, MuniRow(AdequacyColumns, id, fy, kw))]
    IN  Only({ Upsert(e, id, kw) : e \in {d}, id \in {muni_id}, kw \in {kwargs} })

(***************************************************************************)
(* Era Parsers.  Each operator is the body of a parser's loop over the     *)
(* rows of one file: the database after the row has been processed.        *)
(***************************************************************************)
is_municipality_row(row, name_col) ==
    LET name == Strip(Cell(row, name_col))
        skip_patterns ==
            { "state total", "state totals", "state ave", "state", "fy",
              "new hampshire", "department", "division", "bureau", "pleasant",
              "telephone", "fax", "adequacy", "base cost", "adm", "per pupil",
              "replaces", "october", "november", "december", "january",
              "february", "march", "april", "may", "june", "july", "august",
              "september", "see footnote", "k <=", "per thousand", "#ref!",
              "from evals", "from eoy", "true", "false", "grant",
              "calculation", "formula", "rsa", "statewide", "enhanced",
              "targeted", "transition", "equitable", "education", "cost of",
              "information", "commissioner", "estimated", "municipal",
              "loc #", "loc#", "district" }
    IN  /\ Len(row) > name_col
        /\ name # <<>>
        /\ ~LowerStartsWith(name, skip_patterns)
        /\ MatchLetter(name)

import_fy04_aid(d, row) ==
    IF Len(row) < 6 THEN d
    ELSE
    LET name == normalize_name(Cell(row, 0))
        reg == get_or_create_muni(d, name)
        swept == parse_money(Cell(row, 4))
        grant == parse_money(Cell(row, 5))
    IN  IF ~IsName(name) THEN d
        ELSE IF ~is_municipality_row(row, 0) THEN d
        ELSE upsert_adequacy(reg.db, reg.id, 2004,
                [ total_cost_adequate_ed |-> parse_money(Cell(row, 1)),
                  swept |-> swept,
                  total_adequacy_grant |-> grant,
                  total_state_grant |-> Num(OrZero(grant) + OrZero(swept)),
                  base_cost_per_pupil |-> Num(339000),
                  swept_rate |-> Num(4920) ])

\* A wrong FY06 parser: the difference is stored as it is, below zero too.
import_fy06_unclamped(d, row) ==
    IF Len(row) < 11 THEN d
    ELSE
    LET name_str == Strip(Cell(row, 0))
        name == normalize_name(name_str)
        reg == get_or_create_muni(d, name)
        swept == parse_money(Cell(row, 9))
        total_state == parse_money(Cell(row, 10))
        difference == OrZero(total_state) - OrZero(swept)
        adequacy_grant == difference
    IN  IF name_str = <<>> \/ ~MatchLetter(name_str) THEN d
        ELSE IF LowerStartsWith(name_str, { "state", "fy", "statewide",
                                            "enhanced", "ed tax", "per thousand" })
        THEN d
        ELSE IF ~IsName(name) THEN d
        ELSE upsert_adequacy(reg.db, reg.id, 2006,
                [ adm |-> parse_money(Cell(row, 1)),
                  total_adequacy_grant |-> Num(adequacy_grant),
                  swept |-> swept,
                  total_state_grant |-> total_state,
                  base_cost_per_pupil |-> Num(391700),
                  swept_rate |-> Num(2840) ])

\* import_fy06: the loop body.
import_fy06(d, row) ==
    IF Len(row) < 11 THEN d
    ELSE
    LET name_str == Strip(Cell(row, 0))
        name == normalize_name(name_str)
        reg == get_or_create_muni(d, name)
        swept == parse_money(Cell(row, 9))
        total_state == parse_money(Cell(row, 10))
        difference == OrZero(total_state) - OrZero(swept)
        adequacy_grant == IF difference < 0 THEN 0 ELSE difference
    IN  IF name_str = <<>> \/ ~MatchLetter(name_str) THEN d
        ELSE IF LowerStartsWith(name_str, { "state", "fy", "statewide",
                                            "enhanced", "ed tax", "per thousand" })
        THEN d
        ELSE IF ~IsName(name) THEN d
        ELSE upsert_adequacy(reg.db, reg.id, 2006,
                [ adm |-> parse_money(Cell(row, 1)),
                  total_adequacy_grant |-> Num(adequacy_grant),
                  swept |-> swept,
                  total_state_grant |-> total_state,
                  base_cost_per_pupil |-> Num(391700),
                  swept_rate |-> Num(2840) ])

import_fy07(d, row) ==
    IF Len(row) < 5 THEN d
    ELSE
    LET name_str == Strip(Cell(row, 0))
        name == normalize_name(name_str)
        reg == get_or_create_muni(d, name)
        grant == parse_money(Cell(row, 2))
        swept == parse_money(Cell(row, 4))
    IN  IF name_str = <<>> \/ ~MatchLetter(name_str) THEN d
        ELSE IF LowerStartsWith(name_str, { "state", "fy", "see", "k <" }) THEN d
        ELSE IF ~IsName(name) THEN d
        ELSE upsert_adequacy(reg.db, reg.id, 2007,
                [ adm |-> parse_money(Cell(row, 1)),
                  total_adequacy_grant |-> grant,
                  swept |-> swept,
                  total_state_grant |-> Num(OrZero(grant) + OrZero(swept)),
                  base_cost_per_pupil |-> Num(391700),
                  swept_rate |-> Num(2515) ])

import_fy08(d, row) ==
    IF Len(row) < 8 THEN d
    ELSE
    LET name_str == Strip(Cell(row, 0))
        name == normalize_name(name_str)
        reg == get_or_create_muni(d, name)
        grant == parse_money(Cell(row, 6))
        swept == parse_money(Cell(row, 7))
    IN  IF name_str = <<>> \/ ~MatchLetter(name_str) THEN d
        ELSE IF LowerStartsWith(name_str, { "state", "fy", "see", "k <" }) THEN d
        ELSE IF ~IsName(name) THEN d
        ELSE upsert_adequacy(reg.db, reg.id, 2008,
                [ adm |-> parse_money(Cell(row, 1)),
                  total_adequacy_grant |-> grant,
                  swept |-> swept,
                  total_state_grant |-> Num(OrZero(grant) + OrZero(swept)),
                  base_cost_per_pupil |-> Num(391700),
                  swept_rate |-> Num(2240) ])

import_fy09(d, row) ==
    IF Len(row) < 5 THEN d
    ELSE
    LET name_str == Strip(Cell(row, 0))
        name == normalize_name(name_str)
        reg == get_or_create_muni(d, name)
        grant == parse_money(Cell(row, 2))
        swept == parse_money(Cell(row, 4))
    IN  IF name_str = <<>> \/ ~MatchLetter(name_str) THEN d
        ELSE IF LowerStartsWith(name_str, { "state", "fy", "nh", "bureau",
                                            "see", "k <" })
        THEN d
        ELSE IF ~IsName(name) THEN d
        ELSE upsert_adequacy(reg.db, reg.id, 2009,
                [ adm |-> parse_money(Cell(row, 1)),
                  total_adequacy_grant |-> grant,
                  swept |-> swept,
                  total_state_grant |-> Num(OrZero(grant) + OrZero(swept)),
                  base_cost_per_pupil |-> Num(391700),
                  swept_rate |-> Num(2140) ])

import_fy10(d, row) ==
    IF Len(row) < 11 THEN d
    ELSE
    LET name_str == Strip(Cell(row, 0))
        name == normalize_name(name_str)
        reg == get_or_create_muni(d, name)
        grant == parse_money(Cell(row, 10))
        swept == parse_money(Cell(row, 6))
        total == IF Truthy(grant) THEN OrZero(grant) + OrZero(swept)
                 ELSE OrZero(swept)
    IN  IF name_str = <<>> \/ ~MatchLetter(name_str) THEN d
        ELSE IF LowerStartsWith(name_str, { "state", "fy", "see", "k <",
                                            "new hampshire", "commissioner",
                                            "estimated", "municipal" })
        THEN d
        ELSE IF ~IsName(name) THEN d
        ELSE upsert_adequacy(reg.db, reg.id, 2010,
                [ total_adequacy_grant |-> grant,
                  swept |-> swept,
                  fiscal_capacity_aid |-> parse_money(Cell(row, 5)),
                  total_state_grant |-> Num(total),
                  base_cost_per_pupil |-> Num(345000),
                  swept_rate |-> Num(2135) ])

import_fy11(d, row) ==
    IF Len(row) < 11 THEN d
    ELSE
    LET name_str == Strip(Cell(row, 0))
        name == normalize_name(name_str)
        reg == get_or_create_muni(d, name)
        grant == parse_money(Cell(row, 10))
        swept == parse_money(Cell(row, 6))
        total == IF Truthy(grant) THEN OrZero(grant) + OrZero(swept)
                 ELSE OrZero(swept)
    IN  IF name_str = <<>> \/ ~MatchLetter(name_str) THEN d
        ELSE IF LowerStartsWith(name_str, { "state", "fy", "see" }) THEN d
        ELSE IF ~IsName(name) THEN d
        ELSE upsert_adequacy(reg.db, reg.id, 2011,
                [ total_adequacy_grant |-> grant,
                  swept |-> swept,
                  total_state_grant |-> Num(total),
                  base_cost_per_pupil |-> Num(345000),
                  swept_rate |-> Num(2190) ])

\* A scan in the other direction, which stops at the lowest such column.
LastAboveFromLeft(row, stop, threshold) ==
    LET IsBig(v) == Truthy(v) /\ ValueOf(v) > threshold
        First(big) ==
            IF big = {} THEN NULL
            ELSE parse_money(Cell(row, CHOOSE gc \in big : \A other \in big : gc <= other))
    IN  Only({ First(big) :
               big \in { { gc \in (stop + 1)..(Len(row) - 1) :
                             \E v \in { parse_money(Cell(row, gc)) } : IsBig(v) } } })

\* The value the backward scans for a final amount stop at: the parsed cell
\* of the highest column above `stop` that is non-zero and above `threshold`.
LastAbove(row, stop, threshold) ==
    LET IsBig(v) == Truthy(v) /\ ValueOf(v) > threshold
        Last(big) ==
            IF big = {} THEN NULL
            ELSE parse_money(Cell(row, CHOOSE gc \in big : \A other \in big : other <= gc))
    IN  Only({ Last(big) :
               big \in { { gc \in (stop + 1)..(Len(row) - 1) :
                             \E v \in { parse_money(Cell(row, gc)) } : IsBig(v) } } })

\* parse_money(row[idx]) if idx < len(row) else None
MoneyAt(row, idx) == IF idx < Len(row) THEN parse_money(Cell(row, idx)) ELSE NULL

\* row[col] stripped when the cell is there and truthy, '' otherwise
TextAt(row, col) ==
    IF col < Len(row) /\ Cell(row, col) # None /\ Cell(row, col) # <<>>
    THEN Strip(Cell(row, col)) ELSE <<>>

import_fy12_to_fy21(d, fy, row) ==
    LET skip_words ==
            { "from", "true", "false", "membership", "base", "free", "special",
              "english", "grade", "home", "total", "swept", "preliminary",
              "stabilization", "calculated", "statewide", "district", "public",
              "school", "adequacy", "state" }
        try_cols == <<6, 4, 3, 1>>
        IsCandidate(col) ==
            /\ col < Len(row)
            /\ \E candidate \in { Strip(Cell(row, col)) } :
                   /\ candidate # <<>>
                   /\ MatchCapLower(candidate)
                   /\ ~LowerIn(candidate, skip_words)
        Store(reg, base_col, total_cost_col, swept, final_grant) ==
            upsert_adequacy(reg.db, reg.id, fy,
                [ adm |-> MoneyAt(row, base_col),
                  base_adequacy_aid |-> MoneyAt(row, base_col + 1),
                  fr_adm |-> MoneyAt(row, base_col + 2),
                  fr_aid |-> MoneyAt(row, base_col + 3),
                  sped_adm |-> MoneyAt(row, base_col + 4),
                  ell_adm |-> MoneyAt(row, base_col + 5),
                  sped_differentiated_aid |-> MoneyAt(row, base_col + 6),
                  ell_aid |-> MoneyAt(row, base_col + 7),
                  grade3_reading_aid |-> MoneyAt(row, base_col + 9),
                  total_cost_adequate_ed |-> MoneyAt(row, total_cost_col),
                  swept |-> swept,
                  total_adequacy_grant |-> final_grant,
                  total_state_grant |->
                      IF Truthy(final_grant)
                      THEN Num(OrZero(final_grant) + OrZero(swept)) ELSE NULL,
                  base_cost_per_pupil |-> Get(BASE_COST_PER_PUPIL, fy),
                  swept_rate |-> Get(SWEPT_RATES, fy) ])
        Columns(name, base_col, total_cost_col, swept_col) ==
            IF ~IsName(name) THEN d
            ELSE Only({ Store(reg, base_col, total_cost_col, swept, final_grant) :
                        reg \in { get_or_create_muni(d, name) },
                        swept \in { MoneyAt(row, swept_col) },
                        final_grant \in
                            { IF fy = 2021
                              THEN LastAbove(row, base_col + 14, Dollars(1000))
                              ELSE LastAbove(row, swept_col, Dollars(1000)) } })
        Municipality(name_col) ==
            Only({ Columns(name, base_col, total_cost_col, swept_col) :
                   name \in { normalize_name(Strip(Cell(row, name_col))) },
                   base_col \in { name_col + 1 },
                   total_cost_col \in
                       { IF fy >= 2018 THEN name_col + 13 ELSE name_col + 11 },
                   swept_col \in
                       { IF fy >= 2018 THEN name_col + 14 ELSE name_col + 12 } })
        First(found) ==
            IF found = {} THEN d
            ELSE Only({ Municipality(name_col) :
                        name_col \in { try_cols[CHOOSE i \in found :
                                                 \A j \in found : i <= j] } })
    IN  IF Len(row) < 15 THEN d
        ELSE Only({ First(found) :
                    found \in { { i \in 1..Len(try_cols) :
                                    IsCandidate(try_cols[i]) } } })

\* col_map of import_fy22_to_fy26 and cols of import_fy27 (name under
\* name_col), by fiscal year
col_map ==
    [ fy \in 2022..2027 |->
        CASE fy = 2022 ->
               [ name_col |-> 4, adm |-> 7, base_aid |-> 8, fr_adm |-> 11,
                 fr_aid |-> 12, sped_adm |-> 15, sped_aid |-> 16,
                 ell_adm |-> 19, ell_aid |-> 20, total_cost |-> 25,
                 swept |-> 26, adequacy_grant |-> 34, total_state |-> 35 ]
          [] fy = 2023 ->
               [ name_col |-> 1, adm |-> 2, base_aid |-> 3, fr_adm |-> 7,
                 fr_aid |-> 10, sped_adm |-> 11, sped_aid |-> 12,
                 ell_adm |-> 13, ell_aid |-> 14, total_cost |-> 17,
                 swept |-> 18, adequacy_grant |-> 34, total_state |-> 36 ]
          [] fy = 2024 ->
               [ name_col |-> 4, adm |-> 5, base_aid |-> 6, fr_adm |-> 7,
                 fr_aid |-> 8, sped_adm |-> 9, sped_aid |-> 10,
                 ell_adm |-> 11, ell_aid |-> 12, total_cost |-> 13,
                 swept |-> 14, adequacy_grant |-> 23, total_state |-> 25 ]
          [] fy = 2025 ->
               [ name_col |-> 4, adm |-> 5, base_aid |-> 6, fr_adm |-> 7,
                 fr_aid |-> 8, sped_adm |-> 9, sped_aid |-> 10,
                 ell_adm |-> 11, ell_aid |-> 12, total_cost |-> 15,
                 swept |-> 16, adequacy_grant |-> 27, total_state |-> 29 ]
          [] fy = 2026 ->
               [ name_col |-> 4, adm |-> 5, base_aid |-> 6, fr_adm |-> 7,
                 fr_aid |-> 8, sped_adm |-> 9, sped_aid |-> 10,
                 ell_adm |-> 11, ell_aid |-> 12, total_cost |-> 15,
                 swept |-> 16, adequacy_grant |-> 26, total_state |-> 28 ]
          [] fy = 2027 ->
               [ name_col |-> 4, adm |-> 5, base_aid |-> 6, fr_adm |-> 7,
                 fr_aid |-> 8, sped_adm |-> 9, sped_aid |-> 10,
                 ell_adm |-> 11, ell_aid |-> 12, total_cost |-> 15,
                 swept |-> 16, adequacy_grant |-> 25, total_state |-> 27 ] ]

\* The row loop shared, statement for statement, by import_fy22_to_fy26 and
\* import_fy27; only the skip words differ.
ImportSummaryRow(d, fy, row, skip_words) ==
    IF Len(row) < 15 THEN d
    ELSE
    LET cols == col_map[fy]
        candidate == TextAt(row, cols.name_col)
        name == normalize_name(candidate)
        reg == get_or_create_muni(d, name)
    IN  IF candidate = <<>> \/ ~MatchCapLower(candidate) \/ Len(candidate) <= 2
        THEN d
        ELSE IF LowerIn(candidate, skip_words) THEN d
        ELSE IF ~IsName(name) THEN d
        ELSE upsert_adequacy(reg.db, reg.id, fy,
                [ adm |-> MoneyAt(row, cols.adm),
                  base_adequacy_aid |-> MoneyAt(row, cols.base_aid),
                  fr_adm |-> MoneyAt(row, cols.fr_adm),
                  fr_aid |-> MoneyAt(row, cols.fr_aid),
                  sped_adm |-> MoneyAt(row, cols.sped_adm),
                  sped_differentiated_aid |-> MoneyAt(row, cols.sped_aid),
                  ell_adm |-> MoneyAt(row, cols.ell_adm),
                  ell_aid |-> MoneyAt(row, cols.ell_aid),
                  total_cost_adequate_ed |-> MoneyAt(row, cols.total_cost),
                  swept |-> MoneyAt(row, cols.swept),
                  total_adequacy_grant |-> MoneyAt(row, cols.adequacy_grant),
                  total_state_grant |-> MoneyAt(row, cols.total_state),
                  base_cost_per_pupil |-> Get(BASE_COST_PER_PUPIL, fy),
                  swept_rate |-> Get(SWEPT_RATES, fy) ])

import_fy22_to_fy26(d, fy, row) ==
    ImportSummaryRow(d, fy, row,
        { "true", "false", "state", "total", "from", "base", "calculated",
          "district", "public", "school", "adequacy", "sfy", "loc",
          "membership", "statewide", "loc #", "state total",
          "statewide total" })

import_fy27(d, row) ==
    ImportSummaryRow(d, 2027, row,
        { "true", "false", "state", "total", "from", "base", "calculated",
          "district", "public", "school", "adequacy", "sfy", "loc",
          "membership", "statewide", "loc #", "state total" })

(***************************************************************************)
(* Category parsers: INSERT OR REPLACE of one record per accepted row.     *)
(***************************************************************************)
import_sped_catastrophic(d, fy, row) ==
    IF Len(row) < 7 THEN d
    ELSE
    LET name_str == Strip(Cell(row, 0))
        name == normalize_name(name_str)
        reg == get_or_create_muni(d, name)
        entitlement == parse_money(Cell(row, 6))
    IN  IF name_str = <<>> \/ ~MatchLetter(name_str) THEN d
        ELSE IF LowerStartsWith(name_str,
                    { "state", "new hampshire", "department", "division",
                      "bureau", "telephone", "fy", "catastrophic",
                      "101 pleasant", "expenditures", "3 1/2" })
        THEN d
        ELSE IF ~IsName(name) THEN d
        ELSE [reg.db EXCEPT !.sped_aid =
                 InsertOrReplace(@, MuniRow(SpedColumns, reg.id, fy,
                                            [entitlement |-> entitlement]))]

import_sped_aid_detailed(d, fy, row) ==
    IF Len(row) < 5 THEN d
    ELSE
    LET try_cols == <<1, 0>>
        IsCandidate(col) ==
            LET candidate == TextAt(row, col)
            IN  /\ candidate # <<>>
                /\ MatchLetter(candidate)
                /\ Len(candidate) > 2
                /\ ~LowerIn(candidate,
                        { "state", "totals", "state totals", "district",
                          "district of liability", "fy", "sum", "district id" })
        found == { i \in 1..Len(try_cols) : IsCandidate(try_cols[i]) }
        name_str == TextAt(row, try_cols[CHOOSE i \in found : \A j \in found : i <= j])
        name == normalize_name(name_str)
        reg == get_or_create_muni(d, name)
        entitlement == LastAbove(row, 2, Dollars(100))
    IN  IF found = {} THEN d
        ELSE IF ~IsName(name) THEN d
        ELSE [reg.db EXCEPT !.sped_aid =
                 InsertOrReplace(@, MuniRow(SpedColumns, reg.id, fy,
                                            [entitlement |-> entitlement]))]

\* import_building_aid, the loop over the rows of a single-year file
import_building_aid(d, fy, row) ==
    IF Len(row) < 5 THEN d
    ELSE
    LET name_str == Strip(Cell(row, 1))
        name == normalize_name(name_str)
        reg == get_or_create_muni(d, name)
        total == parse_money(Cell(row, 4))
    IN  IF name_str = <<>> \/ ~MatchLetter(name_str) THEN d
        ELSE IF LowerStartsWith(name_str,
                    { "state", "new hampshire", "division", "office",
                      "building", "district", "fy" })
        THEN d
        ELSE IF ~IsName(name) THEN d
        ELSE [reg.db EXCEPT !.building_aid =
                 InsertOrReplace(@, MuniRow(BuildingColumns, reg.id, fy,
                                            [total_entitlement |-> total]))]

\* The year a header cell names: re.search(r'(?:FY|fy)\s*(\d{2,4})') on the
\* stripped cell, two-digit years counted from 2000; NULL when no match.
HeaderYear(val) ==
    LET DigitsFrom(s, i) ==
            Only({ SubSeq(rest, 1, IF LeadingRun(rest, DigitClass) > 4 THEN 4
                                   ELSE LeadingRun(rest, DigitClass)) :
                   rest \in { Only({ DropFirst(after, LeadingRun(after, SpaceClass)) :
                                     after \in { DropFirst(s, i + 1) } }) } })
        Year(yr) == IF yr < 100 THEN Num(yr + 2000) ELSE Num(yr)
        First(s, starts) ==
            IF starts = {} THEN NULL
            ELSE Only({ Year(yr) :
                        yr \in { DigitsValue(DigitsFrom(s, CHOOSE i \in starts :
                                                          \A j \in starts : i <= j)) } })
        Search(s) ==
            Only({ First(s, starts) :
                   starts \in { { i \in 1..(Len(s) - 1) :
                                    /\ SubSeq(s, i, i + 1) \in { Chars("FY"), Chars("fy") }
                                    /\ Len(DigitsFrom(s, i)) >= 2 } } })
    IN  Only({ Search(s) : s \in { Strip(val) } })

\* year_cols: for every year a header cell names, the last column naming it
year_cols(header) ==
    Only({ [ yr \in { ValueOf(year[i]) : i \in { j \in DOMAIN year : year[j] # NULL } } |->
               CHOOSE i \in DOMAIN year :
                   /\ year[i] = Num(yr)
                   /\ \A j \in DOMAIN year : year[j] = Num(yr) => j <= i ] :
           year \in { [ i \in 0..(Len(header) - 1) |-> HeaderYear(Cell(header, i)) ] } })

\* A loop that stores every cell that parses, positive or not.
RECURSIVE StoreYearsNotNull(_, _, _, _, _)
StoreYearsNotNull(table, muni_id, row, cols, years) ==
    IF years = {} THEN table
    ELSE Only({ StoreYearsNotNull(
                    IF val # NULL
                    THEN InsertOrReplace(table,
                             MuniRow(BuildingColumns, muni_id, yr,
                                     [total_entitlement |-> val]))
                    ELSE table,
                    muni_id, row, cols, years \ {yr}) :
                yr \in { CHOOSE y \in years : \A z \in years : y <= z },
                val \in { MoneyAt(row, cols[CHOOSE y \in years :
                                              \A z \in years : y <= z]) } })

\* The loop over year_cols for one row: a record for every year whose cell
\* parses to a positive amount.
RECURSIVE StoreYears(_, _, _, _, _)
StoreYears(table, muni_id, row, cols, years) ==
    IF years = {} THEN table
    ELSE Only({ StoreYears(
                    IF Truthy(val) /\ ValueOf(val) > 0
                    THEN InsertOrReplace(table,
                             MuniRow(BuildingColumns, muni_id, yr,
                                     [total_entitlement |-> val]))
                    ELSE table,
                    muni_id, row, cols, years \ {yr}) :
                yr \in { CHOOSE y \in years : \A z \in years : y <= z },
                val \in { MoneyAt(row, cols[CHOOSE y \in years :
                                              \A z \in years : y <= z]) } })

\* import_building_aid, the loop over the rows after the header of a
\* multi-year file
import_building_aid_multi_year(d, header, row) ==
    LET Store(reg, cols) ==
            [reg.db EXCEPT !.building_aid =
                StoreYears(@, reg.id, row, cols, DOMAIN cols)]
        Municipality(name) ==
            IF ~IsName(name) THEN d
            ELSE Only({ Store(reg, cols) :
                        reg \in { get_or_create_muni(d, name) },
                        cols \in { year_cols(header) } })
        Named(name_str) ==
            IF name_str = <<>> \/ ~MatchLetter(name_str) THEN d
            ELSE IF LowerStartsWith(name_str,
                        { "state", "district", "building", "fy", "total" })
            THEN d
            ELSE Only({ Municipality(name) : name \in { normalize_name(name_str) } })
        Leading(leading) ==
            Only({ Named(name_str) :
                   name_str \in { IF leading = <<>> \/ ~MatchLetter(leading)
                                  THEN TextAt(row, 1) ELSE leading } })
    IN  IF Len(row) < 3 THEN d
        ELSE Only({ Leading(leading) : leading \in { TextAt(row, 0) } })

\* import_charter_school_aid on one file: the largest amount found after a
\* state-total cell, stored as one record when positive.
import_charter_school_aid(d, fy, rows) ==
    LET IsTotalCell(row, col) ==
            \E val \in { Lower(TextAt(row, col)) } :
                Contains(val, Chars("state total")) \/ Strip(val) = Chars("state")
        IsBig(v) == Truthy(v) /\ ValueOf(v) > Dollars(10000)
        First(row, big) ==
            IF big = {} THEN 0
            ELSE ValueOf(parse_money(Cell(row, CHOOSE tc \in big :
                                            \A other \in big : tc <= other)))
        After(row, col) ==
            Only({ First(row, big) :
                   big \in { { tc \in (col + 1)..(Len(row) - 1) :
                                 \E v \in { parse_money(Cell(row, tc)) } :
                                     IsBig(v) } } })
        Max(amounts) == CHOOSE a \in amounts \cup {0} : \A b \in amounts : b <= a
        Store(total_aid) ==
            IF total_aid > 0
            THEN [d EXCEPT !.charter_school_aid =
                     InsertRow(
                         DeleteRows(@, { x \in BagToSet(@) :
                                           /\ x.school_name = Chars("All Charter Schools")
                                           /\ x.fiscal_year = fy }),
                         [ c \in {"school_name", "fiscal_year"} \cup CharterColumns |->
                             IF c = "school_name" THEN Chars("All Charter Schools")
                             ELSE IF c = "fiscal_year" THEN fy
                             ELSE IF c = "total_aid" THEN Num(total_aid) ELSE NULL ])]
            ELSE d
    IN  Only({ Store(Max(amounts)) :
               amounts \in
                   { UNION { { After(row, col) :
                                 col \in { c \in 0..(Len(row) - 1) :
                                             IsTotalCell(row, c) } } :
                             row \in { rows[k] : k \in { k \in 1..Len(rows) :
                                                           Len(rows[k]) >= 3 } } } } })

import_cte_aid(d, fy, row) ==
    IF Len(row) < 4 THEN d
    ELSE
    LET name_str == Strip(Cell(row, 0))
        name == normalize_name(name_str)
        reg == get_or_create_muni(d, name)
    IN  IF name_str = <<>> \/ ~MatchLetter(name_str) THEN d
        ELSE IF LowerStartsWith(name_str,
                    { "state", "new hampshire", "department", "division",
                      "bureau", "district", "cte", "200" })
        THEN d
        ELSE IF ~IsName(name) THEN d
        ELSE [reg.db EXCEPT !.cte_aid =
                 InsertOrReplace(@, MuniRow(CteColumns, reg.id, fy,
                     [ tuition_payment |-> parse_money(Cell(row, 1)),
                       transportation_payment |-> parse_money(Cell(row, 2)),
                       total_payment |-> parse_money(Cell(row, 3)) ]))]

import_kindergarten_aid(d, row) ==
    IF Len(row) < 7 THEN d
    ELSE
    LET name_str == TextAt(row, 4)
        name == normalize_name(name_str)
        reg == get_or_create_muni(d, name)
    IN  IF name_str = <<>> \/ ~MatchLetter(name_str) THEN d
        ELSE IF LowerStartsWith(name_str,
                    { "state", "municipal", "office", "fy", "division",
                      "new hampshire", "data", "based" })
        THEN d
        ELSE IF ~IsName(name) THEN d
        ELSE [reg.db EXCEPT !.kindergarten_aid =
                 InsertOrReplace(@, MuniRow(KindergartenColumns, reg.id, 2019,
                     [ adm |-> parse_money(Cell(row, 5)),
                       per_pupil_rate |-> Num(Dollars(1100)),
                       total_aid |-> parse_money(Cell(row, 6)) ]))]

(***************************************************************************)
(* Totals Computation                                                      *)
(***************************************************************************)
RECURSIVE GCD(_, _)
GCD(a, b) == IF b = 0 THEN a ELSE GCD(b, a % b)

\* Python's a / b: the quotient as a fraction in lowest terms with a positive
\* denominator, or ZeroDivisionError.
ZeroDivisionError == [num |-> 0, den |-> 0]
Divide(a, b) ==
    LET n == IF b < 0 THEN 0 - a ELSE a
        m == IF b < 0 THEN 0 - b ELSE b
        g == GCD(IF n < 0 THEN 0 - n ELSE n, m)
    IN  IF b = 0 THEN ZeroDivisionError
        ELSE [num |-> n \div g, den |-> m \div g]
Whole(n) == [num |-> n, den |-> 1]

\* SELECT SUM(col) FROM table WHERE fiscal_year = fy: NULL when no row has a
\* value in the column.
RECURSIVE SumValues(_, _, _)
SumValues(table, col, rows) ==
    IF rows = {} THEN 0
    ELSE LET r == CHOOSE x \in rows : TRUE
         IN  table[r] * ValueOf(r[col]) + SumValues(table, col, rows \ {r})

\* A sum without its WHERE fiscal_year = ?: the column over every year.
SumColumnOfEveryYear(table, col, fy) ==
    LET rows == { r \in BagToSet(table) : r[col] # NULL }
    IN  IF rows = {} THEN NULL ELSE Num(SumValues(table, col, rows))

\* SELECT SUM(col) FROM table WHERE fiscal_year = ?: NULL when no row of the
\* year holds a value.
SumColumn(table, col, fy) ==
    LET rows == { r \in BagToSet(table) : r.fiscal_year = fy /\ r[col] # NULL }
    IN  IF rows = {} THEN NULL ELSE Num(SumValues(table, col, rows))

\* The fiscal years compute_statewide_totals loops over
TotalsYears(d) == { r.fiscal_year : r \in BagToSet(d.adequacy_aid) }

\* Sums whose adequacy total is taken from the fourth selected column,
\* SUM(total_state_grant).
TotalsSumsOfStateGrant(d, fy) ==
    [ fiscal_year |-> fy,
      total_adequacy_aid |->
          OrZero(SumColumn(d.adequacy_aid, "total_state_grant", fy)),
      total_adm |-> OrZero(SumColumn(d.adequacy_aid, "adm", fy)),
      total_fr_adm |-> OrZero(SumColumn(d.adequacy_aid, "fr_adm", fy)),
      total_sped_aid |-> OrZero(SumColumn(d.sped_aid, "entitlement", fy)),
      total_building_aid |->
          OrZero(SumColumn(d.building_aid, "total_entitlement", fy)),
      total_charter_aid |->
          OrZero(SumColumn(d.charter_school_aid, "total_aid", fy)),
      total_cte_aid |-> OrZero(SumColumn(d.cte_aid, "total_payment", fy)),
      total_kindergarten_aid |->
          OrZero(SumColumn(d.kindergarten_aid, "total_aid", fy)),
      base_cost_per_pupil |-> Get(BASE_COST_PER_PUPIL, fy),
      swept_rate |-> Get(SWEPT_RATES, fy) ]

\* The sums compute_statewide_totals selects for a fiscal year, each with
\* its (... or 0).
TotalsSums(d, fy) ==
    [ fiscal_year |-> fy,
      total_adequacy_aid |->
          OrZero(SumColumn(d.adequacy_aid, "total_adequacy_grant", fy)),
      total_adm |-> OrZero(SumColumn(d.adequacy_aid, "adm", fy)),
      total_fr_adm |-> OrZero(SumColumn(d.adequacy_aid, "fr_adm", fy)),
      total_sped_aid |-> OrZero(SumColumn(d.sped_aid, "entitlement", fy)),
      total_building_aid |->
          OrZero(SumColumn(d.building_aid, "total_entitlement", fy)),
      total_charter_aid |->
          OrZero(SumColumn(d.charter_school_aid, "total_aid", fy)),
      total_cte_aid |-> OrZero(SumColumn(d.cte_aid, "total_payment", fy)),
      total_kindergarten_aid |->
          OrZero(SumColumn(d.kindergarten_aid, "total_aid", fy)),
      base_cost_per_pupil |-> Get(BASE_COST_PER_PUPIL, fy),
      swept_rate |-> Get(SWEPT_RATES, fy) ]

\* A totals computation whose grand total leaves the kindergarten aid out.
compute_statewide_totals_without_kindergarten(d) ==
    LET Record(fy) ==
            LET t == TotalsSums(d, fy)
                total_all == t.total_adequacy_aid + t.total_sped_aid
                             + t.total_building_aid + t.total_charter_aid
                             + t.total_cte_aid
                aid_per_pupil == IF t.total_adm > 0
                                 THEN Divide(total_all, t.total_adm)
                                 ELSE Whole(0)
            IN  [ total_all_education_aid |-> total_all,
                  aid_per_pupil |-> aid_per_pupil ] @@ t
        records == { Record(fy) : fy \in TotalsYears(d) }
    IN  [ db |-> [d EXCEPT !.statewide_totals =
                     { t \in @ : t.fiscal_year \notin TotalsYears(d) } \cup records],
          raised |-> \E t \in records : t.aid_per_pupil = ZeroDivisionError ]

\* A totals computation that divides whenever the enrollment is not negative.
compute_statewide_totals_divides_by_zero(d) ==
    LET Record(fy) ==
            LET t == TotalsSums(d, fy)
                total_all == t.total_adequacy_aid + t.total_sped_aid
                             + t.total_building_aid + t.total_charter_aid
                             + t.total_cte_aid + t.total_kindergarten_aid
                aid_per_pupil == IF t.total_adm >= 0
                                 THEN Divide(total_all, t.total_adm)
                                 ELSE Whole(0)
            IN  [ total_all_education_aid |-> total_all,
                  aid_per_pupil |-> aid_per_pupil ] @@ t
        records == { Record(fy) : fy \in TotalsYears(d) }
    IN  [ db |-> [d EXCEPT !.statewide_totals =
                     { t \in @ : t.fiscal_year \notin TotalsYears(d) } \cup records],
          raised |-> \E t \in records : t.aid_per_pupil = ZeroDivisionError ]

\* compute_statewide_totals(cursor): the database with one record stored
\* (INSERT OR REPLACE on the primary key fiscal_year) for every year of
\* adequacy_aid, and whether a division raised ZeroDivisionError.
compute_statewide_totals(d) ==
    LET Record(fy) ==
            LET t == TotalsSums(d, fy)
                total_all == t.total_adequacy_aid + t.total_sped_aid
                             + t.total_building_aid + t.total_charter_aid
                             + t.total_cte_aid + t.total_kindergarten_aid
                aid_per_pupil == IF t.total_adm > 0
                                 THEN Divide(total_all, t.total_adm)
                                 ELSE Whole(0)
            IN  [ total_all_education_aid |-> total_all,
                  aid_per_pupil |-> aid_per_pupil ] @@ t
        records == { Record(fy) : fy \in TotalsYears(d) }
    IN  [ db |-> [d EXCEPT !.statewide_totals =
                     { t \in @ : t.fiscal_year \notin TotalsYears(d) } \cup records],
          raised |-> \E t \in records : t.aid_per_pupil = ZeroDivisionError ]

(***************************************************************************)
(* main's opening statements: the database file is removed when it exists, *)
(* a connection is opened and the tables are created.  A database that     *)
(* does not exist yet is the empty create_tables as well.                  *)
(***************************************************************************)
\* An opening that leaves an existing database file in place.
main_open_keeps_file(d) == d

main_open(d) == create_tables

(***************************************************************************)
(* Raw labels: a base spelling followed by up to MaxSuffixes of the pieces *)
(* the normalizer strips.                                                  *)
(***************************************************************************)
MaxSuffixes == 2

LabelBases ==
    { Chars("Concord"), Chars("newcastle"), Chars("New Castle"),
      Chars("Hart's Loc"), Chars("hart's loc"), Chars("State Total"),
      Chars("Total"), Chars("Fall Mountain") }

LabelSuffixes ==
    { Chars(" Coop"), Chars(" Cooperative"), Chars(" Regional"),
      Chars("*"), Chars("#"), Chars(" 12"), Chars(" ") }

RECURSIVE LabelsWith(_)
LabelsWith(k) ==
    IF k = 0 THEN LabelBases
    ELSE LET shorter == LabelsWith(k - 1)
         IN  shorter \cup { l \o sfx : l \in shorter, sfx \in LabelSuffixes }

RawLabels == LabelsWith(MaxSuffixes)

Pending == <<"Pending">>

\* The values of the variables a specification does not use.
NoCall ==
    [ op |-> "none", name |-> None, id |-> NULL, created |-> FALSE,
      first |-> FALSE, fy |-> 0, kwargs |-> <<>>, existed |-> FALSE,
      val |-> None, amount |-> 0, result |-> NULL, row |-> <<>> ]
NormIdle ==
    /\ labelA = Pending
    /\ labelB = Pending
    /\ normA = Pending
    /\ normB = Pending
    /\ renormA = Pending
StoreIdle ==
    /\ call = NoCall
    /\ resolved = <<>>
PipelineIdle ==
    /\ pos = 0
    /\ nread = 0
    /\ status = "idle"
\* No file at a path.
NoFile == [ exists |-> FALSE, rows |-> <<>> ]
MainIdle ==
    /\ files = <<>>
    /\ runs = 0
    /\ firstTotals = {}
    /\ xlsx = NoFile

(***************************************************************************)
(* SpecNorm: the normalizer applied to a raw label, to a key of the        *)
(* correction table, and to its own output.                                *)
(***************************************************************************)
InitNorm ==
    /\ labelA \in RawLabels \cup NameFixKeys
    /\ labelB \in NameFixKeys
    /\ normA = Pending
    /\ normB = Pending
    /\ renormA = Pending
    /\ db = create_tables
    /\ StoreIdle
    /\ PipelineIdle
    /\ MainIdle

NormalizeA ==
    /\ normA = Pending
    /\ normA' = normalize_name(labelA)
    /\ UNCHANGED <<labelA, labelB, normB, renormA, db, storeVars, pipeVars, mainVars>>

NormalizeB ==
    /\ normB = Pending
    /\ normB' = normalize_name(labelB)
    /\ UNCHANGED <<labelA, labelB, normA, renormA, db, storeVars, pipeVars, mainVars>>

\* get_or_create_muni's second normalization of an already normalized name.
RenormalizeA ==
    /\ normA # Pending
    /\ renormA = Pending
    /\ renormA' = normalize_name(normA)
    /\ UNCHANGED <<labelA, labelB, normA, normB, db, storeVars, pipeVars, mainVars>>

NextNorm == NormalizeA \/ NormalizeB \/ RenormalizeA

SpecNorm == InitNorm /\ [][NextNorm]_vars

\* C9: normalize_name is idempotent: normalizing the output of normalize_name
\* again gives that output, for every raw label.
C9_NormalizeIdempotent ==
    renormA # Pending => renormA = normA

\* C10: two raw labels that NAME_FIXES maps to the same canonical name
\* normalize to the same output string.
C10_SameFixSameOutput ==
    (/\ normA # Pending
     /\ normB # Pending
     /\ labelA \in NameFixKeys
     /\ labelB \in NameFixKeys
     /\ NameFixOf(labelA) = NameFixOf(labelB))
    => normA = normB

\* The abbreviated and the full spelling of Harts Location have both been
\* normalized, to "Harts Location".
C10_Witness ==
    /\ labelA = Chars("Hart's Loc")
    /\ labelB = Chars("Hart's Location")
    /\ normA = Chars("Harts Location")
    /\ normB = Chars("Harts Location")

(***************************************************************************)
(* SpecRegistry: get_or_create_muni called with the names the normalizer   *)
(* produces, in any order.                                                 *)
(***************************************************************************)
RegistryLabels ==
    { Chars("Concord"), Chars("newcastle"), Chars("Newcastle"),
      Chars("Hart's Loc"), Chars("Total 1 2") }

\* The names the parsers pass to get_or_create_muni: normalize_name's outputs.
CanonicalNames == { normalize_name(l) : l \in RegistryLabels } \ {None}

InitRegistry ==
    /\ db = create_tables
    /\ call = NoCall
    /\ resolved = <<>>
    /\ NormIdle
    /\ PipelineIdle
    /\ MainIdle

CallGetOrCreateMuni ==
    \E name \in CanonicalNames :
        LET res == get_or_create_muni(db, name)
        IN  /\ db' = res.db
            /\ call' = [ NoCall EXCEPT
                           !.op = "get_or_create_muni",
                           !.name = name,
                           !.id = res.id,
                           !.created = (res.db.municipalities # db.municipalities),
                           !.first = (name \notin DOMAIN resolved) ]
            /\ resolved' = IF name \in DOMAIN resolved THEN resolved
                           ELSE (name :> res.id) @@ resolved
            /\ UNCHANGED <<normVars, pipeVars, mainVars>>

NextRegistry == CallGetOrCreateMuni

SpecRegistry == InitRegistry /\ [][NextRegistry]_vars

(***************************************************************************)
(* SpecUpsert: upsert_adequacy called with any key and any keyword         *)
(* arguments.  SQLite does not enforce the REFERENCES clause and           *)
(* upsert_adequacy does not read municipalities, so the ids are free.      *)
(***************************************************************************)
MaxMuniId == 2
UpsertMuniIds == {NULL} \cup { Num(i) : i \in 1..MaxMuniId }
UpsertYears == { 2008 }
UpsertColumns == { "adm", "swept" }
UpsertValues == { NULL, Num(1), Num(2) }
UpsertKwargs == UNION { [cols -> UpsertValues] : cols \in SUBSET UpsertColumns }

InitUpsert ==
    /\ db = create_tables
    /\ call = NoCall
    /\ resolved = <<>>
    /\ NormIdle
    /\ PipelineIdle
    /\ MainIdle

CallUpsertAdequacy ==
    \E muni_id \in UpsertMuniIds, fy \in UpsertYears, kwargs \in UpsertKwargs :
        /\ db' = upsert_adequacy(db, muni_id, fy, kwargs)
        /\ call' = [ NoCall EXCEPT
                       !.op = "upsert_adequacy",
                       !.id = muni_id,
                       !.fy = fy,
                       !.kwargs = kwargs,
                       !.existed = (RowsWithKey(db.adequacy_aid, muni_id, fy) # {}) ]
        /\ UNCHANGED <<resolved, normVars, pipeVars, mainVars>>

NextUpsert == CallUpsertAdequacy

SpecUpsert == InitUpsert /\ [][NextUpsert]_vars

\* C1: upsert_adequacy on an existing (municipality_id, fiscal_year) record
\* changes only the fields passed with a non-null value: a field not passed, or
\* passed as None, keeps its stored value, a field passed with a value takes
\* it, no second record is created and no other record changes.
C1_UpsertKeepsUnpassedFields ==
    [][ (call'.op = "upsert_adequacy" /\ call'.existed) =>
          LET kwargs == call'.kwargs
              old == RowsWithKey(db.adequacy_aid, call'.id, call'.fy)
              new == RowsWithKey(db'.adequacy_aid, call'.id, call'.fy)
          IN  /\ CountKey(db'.adequacy_aid, call'.id, call'.fy) = 1
              /\ BagCardinality(db'.adequacy_aid) = BagCardinality(db.adequacy_aid)
              /\ DeleteRows(db'.adequacy_aid, new) = DeleteRows(db.adequacy_aid, old)
              /\ \A r \in old, q \in new, c \in AdequacyColumns :
                    q[c] = IF c \in DOMAIN kwargs /\ kwargs[c] # NULL
                           THEN kwargs[c] ELSE r[c] ]_vars

\* An upsert on an existing record passed one field as None and left another
\* out, and the record holds a value in both.
C1_Witness ==
    /\ call.op = "upsert_adequacy"
    /\ call.existed
    /\ DOMAIN call.kwargs = {"adm"}
    /\ call.kwargs["adm"] = NULL
    /\ \E r \in RowsWithKey(db.adequacy_aid, call.id, call.fy) :
          r.adm # NULL /\ r.swept # NULL

\* C2: from any store state, for any key and any two different fields a, b,
\* upsert_adequacy with {a: 1} then with {b: 2} leaves the same table as the
\* two calls in the reverse order, and the one record of the key has a = 1 and
\* b = 2.
C2_UpsertCommutes ==
    \A muni_id \in UpsertMuniIds \ {NULL}, fy \in UpsertYears,
       a \in UpsertColumns, b \in UpsertColumns :
        a # b =>
          LET ab == upsert_adequacy(upsert_adequacy(db, muni_id, fy, a :> Num(1)),
                                    muni_id, fy, b :> Num(2))
              ba == upsert_adequacy(upsert_adequacy(db, muni_id, fy, b :> Num(2)),
                                    muni_id, fy, a :> Num(1))
          IN  /\ ab = ba
              /\ CountKey(ab.adequacy_aid, muni_id, fy) = 1
              /\ \A r \in RowsWithKey(ab.adequacy_aid, muni_id, fy) :
                    r[a] = Num(1) /\ r[b] = Num(2)

\* The upsert of {swept: 2} came after the upsert of {adm: 1} on the same key,
\* and the record holds both.
C2_Witness ==
    /\ call.op = "upsert_adequacy"
    /\ call.kwargs = ("swept" :> Num(2))
    /\ \E r \in RowsWithKey(db.adequacy_aid, call.id, call.fy) :
          r.adm = Num(1) /\ r.swept = Num(2)

\* C4: the first get_or_create_muni call for a canonical name creates one
\* municipality and returns its id, every later call for that name returns the
\* same id and creates nothing, different canonical names get different ids,
\* and no two rows of municipalities have the same name.
C4_RegistryContract ==
    /\ (call.op = "get_or_create_muni" /\ call.first) =>
          /\ call.created
          /\ \E m \in db.municipalities : call.id = Num(m.id)
    /\ (call.op = "get_or_create_muni" /\ ~call.first) =>
          /\ ~call.created
          /\ call.id = resolved[call.name]
    /\ \A n1 \in DOMAIN resolved, n2 \in DOMAIN resolved :
          n1 # n2 => resolved[n1] # resolved[n2]
    /\ \A m1 \in db.municipalities, m2 \in db.municipalities :
          m1.name = m2.name => m1 = m2

(***************************************************************************)
(* Spec: one run of main after another, observed row by row.  The data     *)
(* directory holds the files of DataDir; a run reads at most MaxRows rows, *)
(* in the order main reads the files, and then computes the totals.        *)
(***************************************************************************)
MaxRows == 2

\* The import calls of main, in order.
MainOrder ==
    << "import_fy04_aid", "import_fy06", "import_fy07", "import_fy08",
       "import_fy09", "import_fy10", "import_fy11", "import_fy12_to_fy21",
       "import_fy22_to_fy26", "import_fy27", "import_sped_catastrophic",
       "import_sped_aid_detailed", "import_building_aid",
       "import_charter_school_aid", "import_cte_aid",
       "import_kindergarten_aid" >>

\* The files present, by import call: a file is named by the fiscal year its
\* parser files it under, a multi-year building file by the first year in
\* its name.
DataDir ==
    [ import_fy04_aid |-> {2004}, import_fy06 |-> {2006},
      import_fy07 |-> {2007}, import_fy08 |-> {2008}, import_fy09 |-> {2009},
      import_fy10 |-> {2010}, import_fy11 |-> {2011},
      import_fy12_to_fy21 |-> {2019}, import_fy22_to_fy26 |-> {2023},
      import_fy27 |-> {2027}, import_sped_catastrophic |-> {2008},
      import_sped_aid_detailed |-> {2023}, import_building_aid |-> {2008, 2025},
      import_charter_school_aid |-> {2008}, import_cte_aid |-> {2008},
      import_kindergarten_aid |-> {2019} ]
MultiYearFiles == {2010, 2025}
BuildingHeader == << Chars("District"), Chars("FY 2027"), Chars("FY30") >>

\* Where main is when it reads a file.
Position(parser, file) ==
    (CHOOSE i \in 1..Len(MainOrder) : MainOrder[i] = parser) * 10000 + file

\* The rows of the files: the name cell where the parser looks for it first,
\* every other cell the same text.
RowKinds ==
    { << Chars("Concord"), Chars("25000") >>,
      << Chars("Concord"), Chars("n/a") >>,
      << Chars("Concord"), Chars("(200)") >>,
      << Chars("Bow"), Chars("25000") >>,
      << Chars("Total 1 2"), Chars("25000") >>,
      << Chars("State Total"), Chars("25000") >> }
Layout ==
    [ import_fy04_aid |-> <<6, 0>>, import_fy06 |-> <<11, 0>>,
      import_fy07 |-> <<5, 0>>, import_fy08 |-> <<8, 0>>,
      import_fy09 |-> <<5, 0>>, import_fy10 |-> <<11, 0>>,
      import_fy11 |-> <<11, 0>>, import_fy12_to_fy21 |-> <<20, 4>>,
      import_fy22_to_fy26 |-> <<37, 1>>, import_fy27 |-> <<28, 4>>,
      import_sped_catastrophic |-> <<7, 0>>,
      import_sped_aid_detailed |-> <<5, 1>>,
      import_building_aid |-> <<5, 1>>,
      import_charter_school_aid |-> <<3, 0>>, import_cte_aid |-> <<4, 0>>,
      import_kindergarten_aid |-> <<7, 4>> ]
RowOf(width, name_col, kind) ==
    [ i \in 1..width |-> IF i = name_col + 1 THEN kind[1] ELSE kind[2] ]
Rows(parser) ==
    { RowOf(Layout[parser][1], Layout[parser][2], kind) : kind \in RowKinds }
MultiYearRows == { RowOf(3, 0, kind) : kind \in RowKinds }

RECURSIVE SeqsUpTo(_, _)
SeqsUpTo(S, n) ==
    IF n = 0 THEN { <<>> }
    ELSE LET shorter == SeqsUpTo(S, n - 1)
         IN  shorter \cup { Append(s, x) : s \in shorter, x \in S }

Init ==
    /\ db = create_tables
    /\ PipelineIdle
    /\ NormIdle
    /\ StoreIdle
    /\ MainIdle

\* One more row of a file is read and processed, leaving the database `after`.
ReadRow(parser, file, after) ==
    /\ status = "running"
    /\ nread < MaxRows
    /\ file \in DataDir[parser]
    /\ Position(parser, file) >= pos
    /\ db' = after
    /\ pos' = Position(parser, file)
    /\ nread' = nread + 1
    /\ UNCHANGED <<status, normVars, storeVars, mainVars>>

ImportFy04Aid ==
    \E row \in Rows("import_fy04_aid") :
        ReadRow("import_fy04_aid", 2004, import_fy04_aid(db, row))
ImportFy06 ==
    \E row \in Rows("import_fy06") :
        ReadRow("import_fy06", 2006, import_fy06(db, row))
ImportFy07 ==
    \E row \in Rows("import_fy07") :
        ReadRow("import_fy07", 2007, import_fy07(db, row))
ImportFy08 ==
    \E row \in Rows("import_fy08") :
        ReadRow("import_fy08", 2008, import_fy08(db, row))
ImportFy09 ==
    \E row \in Rows("import_fy09") :
        ReadRow("import_fy09", 2009, import_fy09(db, row))
ImportFy10 ==
    \E row \in Rows("import_fy10") :
        ReadRow("import_fy10", 2010, import_fy10(db, row))
ImportFy11 ==
    \E row \in Rows("import_fy11") :
        ReadRow("import_fy11", 2011, import_fy11(db, row))
ImportFy12ToFy21 ==
    \E fy \in 2012..2021, row \in Rows("import_fy12_to_fy21") :
        ReadRow("import_fy12_to_fy21", fy, import_fy12_to_fy21(db, fy, row))
ImportFy22ToFy26 ==
    \E fy \in 2022..2026, row \in Rows("import_fy22_to_fy26") :
        ReadRow("import_fy22_to_fy26", fy, import_fy22_to_fy26(db, fy, row))
ImportFy27 ==
    \E row \in Rows("import_fy27") :
        ReadRow("import_fy27", 2027, import_fy27(db, row))
ImportSpedCatastrophic ==
    \E fy \in 2008..2019, row \in Rows("import_sped_catastrophic") :
        ReadRow("import_sped_catastrophic", fy,
                import_sped_catastrophic(db, fy, row))
ImportSpedAidDetailed ==
    \E fy \in 2020..2026, row \in Rows("import_sped_aid_detailed") :
        ReadRow("import_sped_aid_detailed", fy,
                import_sped_aid_detailed(db, fy, row))
ImportBuildingAid ==
    \E fy \in 2007..2009, row \in Rows("import_building_aid") :
        ReadRow("import_building_aid", fy, import_building_aid(db, fy, row))
ImportBuildingAidMultiYear ==
    \E file \in MultiYearFiles, row \in MultiYearRows :
        ReadRow("import_building_aid", file,
                import_building_aid_multi_year(db, BuildingHeader, row))
ImportCteAid ==
    \E fy \in {2007, 2008} \cup {2010} \cup (2012..2018),
       row \in Rows("import_cte_aid") :
        ReadRow("import_cte_aid", fy, import_cte_aid(db, fy, row))
ImportKindergartenAid ==
    \E row \in Rows("import_kindergarten_aid") :
        ReadRow("import_kindergarten_aid", 2019, import_kindergarten_aid(db, row))

\* A charter file is read whole: its record is stored after the last row.
ImportCharterSchoolAid ==
    \E fy \in DataDir["import_charter_school_aid"] \cap (2007..2024),
       rows \in SeqsUpTo(Rows("import_charter_school_aid"), MaxRows - nread) :
        /\ status = "running"
        /\ rows # <<>>
        /\ Position("import_charter_school_aid", fy) > pos
        /\ db' = import_charter_school_aid(db, fy, rows)
        /\ pos' = Position("import_charter_school_aid", fy)
        /\ nread' = nread + Len(rows)
        /\ UNCHANGED <<status, normVars, storeVars, mainVars>>

\* The remaining files hold no further row; the totals are computed and
\* committed, or main dies of the exception and the transaction with it.
ComputeStatewideTotals ==
    LET res == compute_statewide_totals(db)
    IN  /\ status = "running"
        /\ db' = IF res.raised THEN db ELSE res.db
        /\ status' = IF res.raised THEN "crashed" ELSE "done"
        /\ UNCHANGED <<pos, nread, normVars, storeVars, mainVars>>

\* main is started: the database file is removed and the tables created.
RemoveAndCreate ==
    /\ status # "running"
    /\ db' = main_open(db)
    /\ pos' = 0
    /\ nread' = 0
    /\ status' = "running"
    /\ UNCHANGED <<normVars, storeVars, mainVars>>

Next ==
    \/ ImportFy04Aid \/ ImportFy06 \/ ImportFy07 \/ ImportFy08 \/ ImportFy09
    \/ ImportFy10 \/ ImportFy11 \/ ImportFy12ToFy21 \/ ImportFy22ToFy26
    \/ ImportFy27 \/ ImportSpedCatastrophic \/ ImportSpedAidDetailed
    \/ ImportBuildingAid \/ ImportBuildingAidMultiYear
    \/ ImportCharterSchoolAid \/ ImportCteAid \/ ImportKindergartenAid
    \/ ComputeStatewideTotals \/ RemoveAndCreate

Spec == Init /\ [][Next]_vars

(***************************************************************************)
(* SpecMain: main run MaxRuns times over the same files, one step per      *)
(* import call (with its commit).  The files are fixed at the start and    *)
(* hold at most MainMaxRows rows between them.                             *)
(***************************************************************************)
MainMaxRows == 2
MaxRuns == 2

MainRowKinds ==
    { << Chars("Concord"), Chars("25000") >>,
      << Chars("Total 1 2"), Chars("25000") >>,
      << Chars("State Total"), Chars("25000") >> }

\* The loop body of a parser applied to a row of one of its files.
ParserRow(d, parser, file, row) ==
    CASE parser = "import_fy04_aid" -> import_fy04_aid(d, row)
      [] parser = "import_fy06" -> import_fy06(d, row)
      [] parser = "import_fy07" -> import_fy07(d, row)
      [] parser = "import_fy08" -> import_fy08(d, row)
      [] parser = "import_fy09" -> import_fy09(d, row)
      [] parser = "import_fy10" -> import_fy10(d, row)
      [] parser = "import_fy11" -> import_fy11(d, row)
      [] parser = "import_fy12_to_fy21" -> import_fy12_to_fy21(d, file, row)
      [] parser = "import_fy22_to_fy26" -> import_fy22_to_fy26(d, file, row)
      [] parser = "import_fy27" -> import_fy27(d, row)
      [] parser = "import_sped_catastrophic" ->
             import_sped_catastrophic(d, file, row)
      [] parser = "import_sped_aid_detailed" ->
             import_sped_aid_detailed(d, file, row)
      [] parser = "import_building_aid" ->
             IF file \in MultiYearFiles
             THEN import_building_aid_multi_year(d, BuildingHeader, row)
             ELSE import_building_aid(d, file, row)
      [] parser = "import_cte_aid" -> import_cte_aid(d, file, row)
      [] parser = "import_kindergarten_aid" -> import_kindergarten_aid(d, row)

\* A parser's loop over the rows of one file.
RECURSIVE ImportFile(_, _, _, _)
ImportFile(d, parser, file, rows) ==
    IF parser = "import_charter_school_aid"
    THEN import_charter_school_aid(d, file, rows)
    ELSE IF rows = <<>> THEN d
    ELSE ImportFile(ParserRow(d, parser, file, Head(rows)), parser, file, Tail(rows))

\* An import call of main: the parser's files that exist, in the order of
\* its file table.
RECURSIVE ImportFiles(_, _, _, _)
ImportFiles(d, parser, contents, present) ==
    IF present = {} THEN d
    ELSE LET file == CHOOSE f \in present : \A g \in present : f <= g
         IN  ImportFiles(ImportFile(d, parser, file, contents[<<parser, file>>]),
                         parser, contents, present \ {file})

\* A wrong existence test: every file of the parser's table is opened.
ExistingFilesUnchecked(parser, contents) == DataDir[parser]

\* if not filepath.exists(): return (or continue): the files of the parser
\* that are opened.
ExistingFiles(parser, contents) ==
    { file \in DataDir[parser] : <<parser, file>> \in DOMAIN contents }

\* open(filepath) raises FileNotFoundError for a file that does not exist.
FileNotFound(parser, contents) ==
    \E file \in ExistingFiles(parser, contents) :
        <<parser, file>> \notin DOMAIN contents

ImportCall(d, parser, contents) ==
    ImportFiles(d, parser, contents, ExistingFiles(parser, contents))

FileNames == { <<parser, file>> : parser \in DOMAIN DataDir, file \in 2004..2027 }
PresentFiles == { name \in FileNames : name[2] \in DataDir[name[1]] }
MainRowOf(name, kind) ==
    IF name[1] = "import_building_aid" /\ name[2] \in MultiYearFiles
    THEN RowOf(3, 0, kind)
    ELSE RowOf(Layout[name[1]][1], Layout[name[1]][2], kind)

\* The files that hold rows when main is run twice; the other files that are
\* present hold none.
MainInputs ==
    { <<"import_fy08", 2008>>, <<"import_fy12_to_fy21", 2019>>,
      <<"import_fy27", 2027>>, <<"import_sped_catastrophic", 2008>>,
      <<"import_charter_school_aid", 2008>>,
      <<"import_kindergarten_aid", 2019>> }

\* The contents the files can have with at most n rows between them.
RECURSIVE ContentsUpTo(_)
ContentsUpTo(n) ==
    IF n = 0 THEN { [name \in PresentFiles |-> <<>>] }
    ELSE LET fewer == ContentsUpTo(n - 1)
         IN  fewer \cup
             { [c EXCEPT ![name] = Append(@, MainRowOf(name, kind))] :
                 c \in fewer, name \in MainInputs, kind \in MainRowKinds }

\* import_fy27 reads the .xlsx path, after copying the FY27 file there if
\* the file exists and the .xlsx path does not.
Fy27File == <<"import_fy27", 2027>>
CopyIfNeeded(copy, contents) ==
    IF Fy27File \in DOMAIN contents /\ ~copy.exists
    THEN [ exists |-> TRUE, rows |-> contents[Fy27File] ]
    ELSE copy
Opened(contents, copy) ==
    IF copy.exists THEN (Fy27File :> copy.rows) @@ contents
    ELSE [ name \in DOMAIN contents \ {Fy27File} |-> contents[name] ]

InitMain ==
    /\ files \in ContentsUpTo(MainMaxRows)
    /\ runs = 0
    /\ firstTotals = {}
    /\ xlsx = NoFile
    /\ db = create_tables
    /\ PipelineIdle
    /\ NormIdle
    /\ StoreIdle

MainOpen ==
    /\ status # "running"
    /\ runs < MaxRuns
    /\ db' = main_open(db)
    /\ pos' = 0
    /\ status' = "running"
    /\ UNCHANGED <<nread, files, runs, firstTotals, xlsx, normVars, storeVars>>

MainImport ==
    /\ status = "running"
    /\ pos < Len(MainOrder)
    /\ xlsx' = IF MainOrder[pos + 1] = "import_fy27"
               THEN CopyIfNeeded(xlsx, files) ELSE xlsx
    /\ IF FileNotFound(MainOrder[pos + 1], Opened(files, xlsx'))
       THEN /\ status' = "crashed"
            /\ runs' = runs + 1
            /\ UNCHANGED <<db, pos>>
       ELSE /\ db' = ImportCall(db, MainOrder[pos + 1], Opened(files, xlsx'))
            /\ pos' = pos + 1
            /\ UNCHANGED <<status, runs>>
    /\ UNCHANGED <<nread, files, firstTotals, normVars, storeVars>>

MainComputeStatewideTotals ==
    LET res == compute_statewide_totals(db)
    IN  /\ status = "running"
        /\ pos = Len(MainOrder)
        /\ db' = IF res.raised THEN db ELSE res.db
        /\ status' = IF res.raised THEN "crashed" ELSE "done"
        /\ runs' = runs + 1
        /\ firstTotals' = IF runs = 0 THEN db'.statewide_totals ELSE firstTotals
        /\ UNCHANGED <<pos, nread, files, xlsx, normVars, storeVars>>

NextMain == MainOpen \/ MainImport \/ MainComputeStatewideTotals

SpecMain == InitMain /\ [][NextMain]_vars

(***************************************************************************)
(* The import pipeline: properties of the category tables and the totals.  *)
(***************************************************************************)
\* The number of records of a municipality-keyed table that share a key is
\* at most one.
OnePerMunicipality(table) ==
    \A r \in BagToSet(table) :
        CountKey(table, r.municipality_id, r.fiscal_year) <= 1

\* The same for charter_school_aid, keyed by (school_name, fiscal_year).
OnePerSchool(table) ==
    \A r \in BagToSet(table) :
        SumCounts(table, { x \in BagToSet(table) :
                             /\ x.school_name = r.school_name
                             /\ x.fiscal_year = r.fiscal_year }) <= 1

\* C3: after any sequence of parser, upsert and INSERT OR REPLACE operations,
\* each of the six category tables holds at most one record per
\* (municipality or school name, fiscal year).
C3_OneRecordPerKey ==
    /\ OnePerMunicipality(db.adequacy_aid)
    /\ OnePerMunicipality(db.sped_aid)
    /\ OnePerMunicipality(db.building_aid)
    /\ OnePerSchool(db.charter_school_aid)
    /\ OnePerMunicipality(db.cte_aid)
    /\ OnePerMunicipality(db.kindergarten_aid)

\* C5: after compute_statewide_totals has run, once or on every run of main,
\* every statewide_totals row has total_all_education_aid equal to the sum of
\* its six category totals.
C5_GrandTotalIsSum ==
    \A t \in db.statewide_totals :
        t.total_all_education_aid =
            t.total_adequacy_aid + t.total_sped_aid + t.total_building_aid
            + t.total_charter_aid + t.total_cte_aid + t.total_kindergarten_aid

\* The totals have been computed for a year with adequacy aid, kindergarten
\* aid and a grand total that is more than either.
C5_Witness ==
    /\ status = "done"
    /\ \E t \in db.statewide_totals :
          /\ t.total_adequacy_aid > 0
          /\ t.total_kindergarten_aid > 0
          /\ t.total_all_education_aid > t.total_adequacy_aid

\* C6: for every statewide_totals row, aid_per_pupil is
\* total_all_education_aid divided by total_adm when total_adm > 0 and zero
\* otherwise, and compute_statewide_totals never divides by zero, also when
\* every adm of a year is null or zero.
C6_AidPerPupilGuarded ==
    /\ status # "crashed"
    /\ \A t \in db.statewide_totals :
          t.aid_per_pupil =
              IF t.total_adm > 0
              THEN Divide(t.total_all_education_aid, t.total_adm)
              ELSE Whole(0)

\* The totals have been computed for a year with pupils and for a year whose
\* adequacy records hold aid but no adm.
C6_Witness ==
    /\ status = "done"
    /\ \E t \in db.statewide_totals :
          t.total_adm > 0 /\ t.aid_per_pupil # Whole(0)
    /\ \E t \in db.statewide_totals :
          /\ t.total_adm = 0
          /\ t.total_all_education_aid > 0
          /\ \A r \in BagToSet(db.adequacy_aid) :
                r.fiscal_year = t.fiscal_year => r.adm = NULL

\* The fiscal years that appear in the six category tables.
CategoryYears ==
    { r.fiscal_year : r \in BagToSet(db.adequacy_aid) }
    \cup { r.fiscal_year : r \in BagToSet(db.sped_aid) }
    \cup { r.fiscal_year : r \in BagToSet(db.building_aid) }
    \cup { r.fiscal_year : r \in BagToSet(db.charter_school_aid) }
    \cup { r.fiscal_year : r \in BagToSet(db.cte_aid) }
    \cup { r.fiscal_year : r \in BagToSet(db.kindergarten_aid) }

\* C7: after compute_statewide_totals there is exactly one statewide_totals
\* row for every fiscal year that appears in any of the six category tables,
\* not only for the years of adequacy_aid.
C7_TotalsForEveryYear ==
    status = "done" =>
        \A fy \in CategoryYears :
            Cardinality({ t \in db.statewide_totals : t.fiscal_year = fy }) = 1

\* C8: running main twice in succession on the same input files leaves the
\* same statewide_totals rows after the second run as after the first.
C8_RerunSameTotals ==
    (runs >= 2 /\ status = "done") => db.statewide_totals = firstTotals

\* main has run twice on files that hold adequacy aid and special education
\* aid for the same year.
C8_Witness ==
    /\ runs = 2
    /\ status = "done"
    /\ \E t \in firstTotals : t.total_adequacy_aid > 0 /\ t.total_sped_aid > 0


(***************************************************************************)
(* SpecMoney: parse_money called with any cell of a family of cell texts,  *)
(* and with the canonical rendering of any amount of a bounded set.        *)
(***************************************************************************)
\* The cells: what may stand before, in and after the figure of a cell.
CellPrefixes ==
    { <<>>, Chars(" "), Chars("$"), Chars("("), Chars("($"), Chars("-"),
      Chars("'"), Chars("$ ") }
CellCores ==
    { <<>>, Chars("-"), Chars("#REF!"), Chars("0"), Chars("12"),
      Chars("1,234.56"), Chars(".5"), Chars("n/a"), Chars("nan"),
      Chars("inf"), Chars("Infinity"), Chars("x") }
CellSuffixes == { <<>>, Chars(" "), Chars(")"), Chars("'") }
MoneyCells ==
    {None} \cup { pre \o core \o post :
                  pre \in CellPrefixes, core \in CellCores, post \in CellSuffixes }

\* The amounts, in cents: m * 10^e, of either sign.
MaxMantissa == 12
MaxExponent == 7
RECURSIVE PowerOfTen(_)
PowerOfTen(e) == IF e = 0 THEN 1 ELSE 10 * PowerOfTen(e - 1)
Amounts ==
    { sign * m * PowerOfTen(e) :
      sign \in {-1, 1}, m \in 0..MaxMantissa, e \in 0..MaxExponent }

\* The decimal digits of a natural number.
RECURSIVE DigitsOf(_)
DigitsOf(n) ==
    IF n < 10 THEN <<Digits[n + 1]>>
    ELSE DigitsOf(n \div 10) \o <<Digits[(n % 10) + 1]>>

\* A digit string with a comma before every group of three digits.
RECURSIVE Thousands(_)
Thousands(s) ==
    IF Len(s) <= 3 THEN s
    ELSE Thousands(DropLast(s, 3)) \o <<",">> \o SubSeq(s, Len(s) - 2, Len(s))

\* 1,234.56 for 123456 cents.
Figure(cents) ==
    Thousands(DigitsOf(cents \div 100)) \o <<".">>
        \o <<Digits[((cents % 100) \div 10) + 1], Digits[(cents % 10) + 1]>>

\* The canonical rendering of an amount: $1,234.56, and (1,234.56) below zero.
Rendering(cents) ==
    IF cents >= 0 THEN <<"$">> \o Figure(cents)
    ELSE <<"(">> \o Figure(0 - cents) \o <<")">>

\* A cell, or an amount to render, is drawn; parse_money has yet to be called.
InitMoney ==
    /\ db = create_tables
    /\ resolved = <<>>
    /\ call \in { [ NoCall EXCEPT !.op = "cell", !.val = val ] : val \in MoneyCells }
           \cup { [ NoCall EXCEPT !.op = "amount", !.amount = amount ] :
                  amount \in Amounts }
    /\ NormIdle
    /\ PipelineIdle
    /\ MainIdle

\* parse_money(val) for the cell.
CallParseMoney ==
    /\ call.op = "cell"
    /\ call' = [ call EXCEPT !.op = "parse_money", !.result = parse_money(call.val) ]
    /\ UNCHANGED <<db, resolved, normVars, pipeVars, mainVars>>

\* parse_money(val) for the canonical rendering of the amount.
CallParseRendering ==
    /\ call.op = "amount"
    /\ call' = [ call EXCEPT
                   !.op = "parse_rendering",
                   !.val = Rendering(call.amount),
                   !.result = parse_money(Rendering(call.amount)) ]
    /\ UNCHANGED <<db, resolved, normVars, pipeVars, mainVars>>

NextMoney == CallParseMoney \/ CallParseRendering

SpecMoney == InitMoney /\ [][NextMoney]_vars

(***************************************************************************)
(* The value parser: properties of parse_money (SpecMoney).                *)
(***************************************************************************)
\* A finite number, as opposed to NULL, NaN and the infinities.
IsNumber(v) == v \notin { NULL, NaN, Infinity, NegInfinity }

\* A cell without the characters parse_money removes.
Residue(val) == RemoveChars(val, {"$", "\"", "'", "(", ")", ",", " "})

\* A decimal numeral: an optional sign, then digits with at most one point.
IsDecimalText(t) ==
    \E body \in { IF t # <<>> /\ t[1] \in {"+", "-"} THEN Tail(t) ELSE t } :
        /\ \E i \in 1..Len(body) : body[i] \in DigitClass
        /\ RemoveChars(body, DigitClass) \in { <<>>, <<".">> }

\* A cell that holds a zero sentinel: "-", "#REF!", or nothing but currency
\* symbols, quotes and whitespace.
IsSentinel(val) ==
    \/ RemoveChars(val, {"$", "\"", "'", " "}) \in { <<>>, Chars("-") }
    \/ Strip(val) = Chars("#REF!")

\* C11: parse_money returns a number or None for every cell, and None, not
\* zero, for a cell whose text is no zero sentinel and, with the currency
\* symbols, quotes, parentheses, commas and spaces stripped, no decimal number.
C11_ParseMoneyTotal ==
    call.op = "parse_money" =>
        /\ call.result = NULL \/ IsNumber(call.result)
        /\ ( /\ call.val # None
             /\ ~IsSentinel(call.val)
             /\ Residue(call.val) \notin { <<>>, Chars("-") }
             /\ ~IsDecimalText(Residue(call.val)) ) => call.result = NULL

\* C12: parse_money returns None for None and for the empty string.
C12_NullAndEmptyGiveNull ==
    (call.op = "parse_money" /\ call.val \in { None, <<>> }) => call.result = NULL

\* C13: parse_money returns zero, not None, for a cell that holds a zero
\* sentinel: "-", "#REF!", or a cell that is blank once its currency symbols,
\* quotes and whitespace are stripped.
C13_SentinelsGiveZero ==
    (call.op = "parse_money" /\ call.val # None /\ IsSentinel(call.val))
        => call.result = Num(0)

\* The broken-reference marker, with a blank before it, was parsed to zero.
C13_Witness ==
    /\ call.op = "parse_money"
    /\ call.val = Chars(" #REF!")
    /\ call.result = Num(0)

\* C14: parse_money applied to the canonical rendering of an amount returns
\* the amount: the figure after "$" for an amount of zero or more, and the
\* negative of the figure in parentheses for an amount below zero.
C14_RenderingRoundTrip ==
    call.op = "parse_rendering" => call.result = Num(call.amount)

\* (1,200.00) was parsed to minus 1200 dollars.
C14_Witness ==
    /\ call.op = "parse_rendering"
    /\ call.val = Chars("(1,200.00)")
    /\ call.amount = 0 - Dollars(1200)
    /\ call.result = Num(0 - Dollars(1200))

(***************************************************************************)
(* SpecRows: the parsers observed row by row, in the order main calls      *)
(* them; the row a parser has just processed is kept in call.              *)
(***************************************************************************)
MaxParsed == 2

\* The rows: a name cell and the text of every other cell.  The FY06 file
\* has its own text in the last column (Total State Aid), so that the
\* enhanced education tax and the total vary one by one.
RowNames == { Chars("Concord"), Chars("State Total") }
ParsedKinds(parser) ==
    IF parser = "import_fy06"
    THEN { <<n, swept, total>> :
           n \in RowNames, swept \in { Chars("1200"), Chars("n/a") },
           total \in { Chars("1000"), Chars("n/a") } }
    ELSE { <<n, cell, cell>> : n \in RowNames, cell \in { Chars("25000"), Chars("n/a") } }
ParsedRow(name, kind) ==
    [ i \in DOMAIN MainRowOf(name, kind) |->
        IF name[1] = "import_fy06" /\ i = Layout[name[1]][1] THEN kind[3]
        ELSE MainRowOf(name, kind)[i] ]

AdequacyParsers ==
    { "import_fy04_aid", "import_fy06", "import_fy07", "import_fy08",
      "import_fy09", "import_fy10", "import_fy11", "import_fy12_to_fy21",
      "import_fy22_to_fy26", "import_fy27" }

InitRows ==
    /\ db = create_tables
    /\ pos = 0
    /\ nread = 0
    /\ status = "running"
    /\ StoreIdle
    /\ NormIdle
    /\ MainIdle

\* A parser processes one more row of one of its files.
ParseRow(name) ==
    \E kind \in ParsedKinds(name[1]) :
        /\ nread < MaxParsed
        /\ Position(name[1], name[2]) >= pos
        /\ db' = ImportFile(db, name[1], name[2], << ParsedRow(name, kind) >>)
        /\ call' = [ NoCall EXCEPT
                       !.op = name[1],
                       !.fy = name[2],
                       !.name = kind[1],
                       !.row = ParsedRow(name, kind) ]
        /\ pos' = Position(name[1], name[2])
        /\ nread' = nread + 1
        /\ UNCHANGED <<status, resolved, normVars, mainVars>>

ParseAdequacyRow ==
    \E name \in PresentFiles : name[1] \in AdequacyParsers /\ ParseRow(name)
ParseSpedRow ==
    \E name \in PresentFiles :
        /\ name[1] \in { "import_sped_catastrophic", "import_sped_aid_detailed" }
        /\ ParseRow(name)
ParseBuildingRow ==
    \E name \in PresentFiles : name[1] = "import_building_aid" /\ ParseRow(name)
ParseCharterRow ==
    \E name \in PresentFiles :
        name[1] = "import_charter_school_aid" /\ ParseRow(name)
ParseCteRow ==
    \E name \in PresentFiles : name[1] = "import_cte_aid" /\ ParseRow(name)
ParseKindergartenRow ==
    \E name \in PresentFiles : name[1] = "import_kindergarten_aid" /\ ParseRow(name)

NextRows ==
    \/ ParseAdequacyRow \/ ParseSpedRow \/ ParseBuildingRow
    \/ ParseCharterRow \/ ParseCteRow \/ ParseKindergartenRow

SpecRows == InitRows /\ [][NextRows]_vars

Fy06Records ==
    { r \in BagToSet(db.adequacy_aid) :
        /\ r.fiscal_year = 2006
        /\ \E m \in db.municipalities :
              /\ m.name = normalize_name(call.name)
              /\ r.municipality_id = Num(m.id) }

\* max(0, x)
ZeroOrMore(x) == IF x > 0 THEN x ELSE 0

\* C16: after import_fy06 has processed a row, the record stored for it holds
\* total_adequacy_grant = max(0, total_state_grant - swept) of the row's
\* cells, a null operand taken as zero, and never a number below zero.
C16_Fy06GrantClamped ==
    call.op = "import_fy06" =>
        \A r \in Fy06Records :
            /\ r.total_adequacy_grant =
                 Num(ZeroOrMore(OrZero(parse_money(Cell(call.row, 10)))
                                - OrZero(parse_money(Cell(call.row, 9)))))
            /\ ValueOf(r.total_adequacy_grant) >= 0

\* A row with total state aid 1000 and tax 1200 was stored with a grant of 0.
C16_Witness ==
    /\ call.op = "import_fy06"
    /\ Cell(call.row, 10) = Chars("1000")
    /\ Cell(call.row, 9) = Chars("1200")
    /\ \E r \in Fy06Records :
          /\ r.total_adequacy_grant = Num(0)
          /\ r.total_state_grant = Num(Dollars(1000))
          /\ r.swept = Num(Dollars(1200))

\* The tables of the special-education, building, career/technical and
\* kindergarten categories.
MergedTables == { "sped_aid", "building_aid", "cte_aid", "kindergarten_aid" }

\* C17: when a parser processes another row for a (municipality, fiscal
\* year) that has a record in one of these tables, a field of the record
\* that held a value keeps it unless the row carries a value for it: no
\* stored value is replaced by null.
C17_NullKeepsStoredField ==
    [][ \A t \in MergedTables :
          \A r \in BagToSet(db[t]), r2 \in BagToSet(db'[t]) :
              ( /\ r.municipality_id # NULL
                /\ r2.municipality_id = r.municipality_id
                /\ r2.fiscal_year = r.fiscal_year )
              => \A c \in DOMAIN r \ { "municipality_id", "fiscal_year" } :
                    (r[c] # NULL /\ r2[c] # r[c]) => r2[c] # NULL ]_vars

(***************************************************************************)
(* SpecRetry: runs of main that may die inside an import call, and source  *)
(* files that are changed between two runs.  Every step of main ends with  *)
(* conn.commit(), so db is the committed store in every state.             *)
(***************************************************************************)
RetryMaxRows == 1

InitRetry ==
    /\ files \in ContentsUpTo(RetryMaxRows)
    /\ runs = 0
    /\ firstTotals = {}
    /\ xlsx = NoFile
    /\ db = create_tables
    /\ PipelineIdle
    /\ NormIdle
    /\ StoreIdle

\* main dies inside its next import call (load_workbook raises on an
\* unreadable workbook, a read fails, the process is interrupted): what the
\* call wrote is not committed; import_fy27 may have made its copy before.
MainFail ==
    /\ status = "running"
    /\ pos < Len(MainOrder)
    /\ status' = "crashed"
    /\ runs' = runs + 1
    /\ xlsx' \in { xlsx } \cup
                 ( IF MainOrder[pos + 1] = "import_fy27"
                   THEN { CopyIfNeeded(xlsx, files) } ELSE {} )
    /\ UNCHANGED <<db, pos, nread, files, firstTotals, normVars, storeVars>>

\* Between two runs the content of one source file is changed.
ChangeFile ==
    /\ status \in { "done", "crashed" }
    /\ runs < MaxRuns
    /\ \E changed \in ContentsUpTo(RetryMaxRows) :
          /\ changed # files
          /\ \E name \in MainInputs :
                \A other \in PresentFiles \ {name} : changed[other] = files[other]
          /\ files' = changed
    /\ UNCHANGED <<db, pos, nread, status, runs, firstTotals, xlsx, normVars, storeVars>>

NextRetry ==
    \/ MainOpen \/ MainImport \/ MainComputeStatewideTotals
    \/ MainFail \/ ChangeFile

SpecRetry == InitRetry /\ [][NextRetry]_vars

(***************************************************************************)
(* main: properties of its commits and of its runs (SpecMain, SpecRetry).  *)
(***************************************************************************)
\* The aid categories of main: the table, and the first and the last import
\* call of the category in MainOrder.
Categories ==
    { [ table |-> "adequacy_aid", first |-> 1, last |-> 10 ],
      [ table |-> "sped_aid", first |-> 11, last |-> 12 ],
      [ table |-> "building_aid", first |-> 13, last |-> 13 ],
      [ table |-> "charter_school_aid", first |-> 14, last |-> 14 ],
      [ table |-> "cte_aid", first |-> 15, last |-> 15 ],
      [ table |-> "kindergarten_aid", first |-> 16, last |-> 16 ] }

\* C18: main commits only when every parser of a category has finished: in
\* no committed state of a run has the store taken the calls of some parsers
\* of a category and not of the others (pos import calls are committed).
C18_CommitPerCategory ==
    status = "running" =>
        \A cat \in Categories : ~(cat.first <= pos /\ pos < cat.last)

\* C19: when main is started again after a run that died, the records of the
\* categories that the dead run had committed in full are kept as they are.
C19_RetryKeepsCommitted ==
    [][ (status = "crashed" /\ status' = "running") =>
            \A cat \in Categories :
                cat.last <= pos => db'[cat.table] = db[cat.table] ]_vars

\* The store that one run over these file contents derives from an empty
\* data-free start: every import call of main in order, then the totals.
RECURSIVE ImportCalls(_, _, _)
ImportCalls(d, contents, k) ==
    IF k > Len(MainOrder) THEN d
    ELSE ImportCalls(ImportCall(d, MainOrder[k], contents), contents, k + 1)
Derived(contents) ==
    compute_statewide_totals(ImportCalls(create_tables, contents, 1)).db

\* C20: when a run ends, the store holds the records derived from the source
\* files as they are now, whatever they held in an earlier run, the FY27
\* file included.
C20_RerunReadsChangedFiles ==
    [][ (status = "running" /\ status' = "done") => db' = Derived(files') ]_vars

(***************************************************************************)
(* Runs of main over a data directory from which source files are missing  *)
(* (SpecMissing).                                                          *)
(***************************************************************************)
MissingMaxRows == 1

\* The source files that may be absent from the data directory.
MissingChoices ==
    { <<"import_fy04_aid", 2004>>, <<"import_fy12_to_fy21", 2019>>, Fy27File }

\* The data directory without the files of names.
Without(contents, names) ==
    [ name \in DOMAIN contents \ names |-> contents[name] ]

InitMissing ==
    /\ \E contents \in ContentsUpTo(MissingMaxRows) :
          \E names \in SUBSET MissingChoices :
             files = Without(contents, names)
    /\ runs = 0
    /\ firstTotals = {}
    /\ xlsx = NoFile
    /\ db = create_tables
    /\ PipelineIdle
    /\ NormIdle
    /\ StoreIdle

NextMissing == MainOpen \/ MainImport \/ MainComputeStatewideTotals

SpecMissing == InitMissing /\ [][NextMissing]_vars

\* No source file of the parser exists: filepath.exists() is false for each
\* file of its table and, for import_fy27, for the .xlsx path too.
SourceMissing(parser) ==
    /\ \A file \in DataDir[parser] : <<parser, file>> \notin DOMAIN files
    /\ parser = "import_fy27" => ~xlsx.exists

MaxScanCols == 3

\* The files whose rows are scanned, one for each scan of the source: the
\* FY12-FY17, the FY18-FY20 and the FY21 layout of import_fy12_to_fy21, and
\* import_sped_aid_detailed.
ScanFiles ==
    { <<"import_fy12_to_fy21", 2014>>, <<"import_fy12_to_fy21", 2019>>,
      <<"import_fy12_to_fy21", 2021>>, <<"import_sped_aid_detailed", 2023>> }

\* The column below the scan range, range(len(row) - 1, stop, -1), for a
\* row with its name in the column of Layout.
ScanStop(name) ==
    IF name[1] = "import_sped_aid_detailed" THEN 2
    ELSE IF name[2] = 2021 THEN Layout[name[1]][2] + 1 + 14
    ELSE IF name[2] >= 2018 THEN Layout[name[1]][2] + 1 + 13
    ELSE Layout[name[1]][2] + 1 + 11
ScanThreshold(name) ==
    IF name[1] = "import_sped_aid_detailed" THEN Dollars(100) ELSE Dollars(1000)
ScanTable(name) ==
    IF name[1] = "import_sped_aid_detailed" THEN "sped_aid" ELSE "adequacy_aid"
ScanField(name) ==
    IF name[1] = "import_sped_aid_detailed" THEN "entitlement"
    ELSE "total_adequacy_grant"

\* The rows: Concord, 99999 in every column up to the end of the fixed
\* layout, and the trailing columns of the scan range one by one.
ScanCells ==
    { Chars("30000"), Chars("25000"), Chars("1000"), Chars("100"), Chars("n/a") }
ScanRow(name, cells) ==
    [ i \in 1..(ScanStop(name) + 1 + Len(cells)) |->
        IF i = Layout[name[1]][2] + 1 THEN Chars("Concord")
        ELSE IF i <= ScanStop(name) + 1 THEN Chars("99999")
        ELSE cells[i - ScanStop(name) - 1] ]

\* The store before the row: empty, or with a record of Concord in each
\* file from an earlier row that holds 25000 in every trailing column.
RECURSIVE ScanEarlier(_, _)
ScanEarlier(d, names) ==
    IF names = {} THEN d
    ELSE LET name == CHOOSE n \in names : TRUE
         IN  ScanEarlier(
                 ImportFile(d, name[1], name[2],
                     << ScanRow(name, [ i \in 1..MaxScanCols |-> Chars("25000") ]) >>),
                 names \ {name})

InitScan ==
    /\ db \in { create_tables, ScanEarlier(create_tables, ScanFiles) }
    /\ pos = 0
    /\ nread = 0
    /\ status = "running"
    /\ StoreIdle
    /\ NormIdle
    /\ MainIdle

ScanRowOf(name) ==
    \E cells \in [ 1..MaxScanCols -> ScanCells ] :
        /\ nread = 0
        /\ db' = ImportFile(db, name[1], name[2], << ScanRow(name, cells) >>)
        /\ call' = [ NoCall EXCEPT
                       !.op = name[1],
                       !.fy = name[2],
                       !.row = ScanRow(name, cells) ]
        /\ nread' = 1
        /\ UNCHANGED <<pos, status, resolved, normVars, mainVars>>

ScanAdequacyRow ==
    \E name \in ScanFiles : name[1] = "import_fy12_to_fy21" /\ ScanRowOf(name)
ScanSpedRow ==
    \E name \in ScanFiles : name[1] = "import_sped_aid_detailed" /\ ScanRowOf(name)

NextScan == ScanAdequacyRow \/ ScanSpedRow

SpecScan == InitScan /\ [][NextScan]_vars

\* The columns of the scan range whose parsed value is non-null and above
\* the threshold, and the final-amount field of the records of the file.
Qualifying(name, row) ==
    { gc \in (ScanStop(name) + 1)..(Len(row) - 1) :
        /\ parse_money(Cell(row, gc)) # NULL
        /\ ValueOf(parse_money(Cell(row, gc))) > ScanThreshold(name) }
Rightmost(name, row) ==
    parse_money(Cell(row, CHOOSE gc \in Qualifying(name, row) :
                              \A other \in Qualifying(name, row) : other <= gc))
ScanStored(d, name) ==
    { r[ScanField(name)] : r \in { q \in BagToSet(d[ScanTable(name)]) :
                                      q.fiscal_year = name[2] } }

\* C22 as stated: after a row of one of the scanning parsers the final
\* amount stored is the value of the right-most qualifying column of the
\* scan range, and null when no column of the range qualifies.
C22_ScanStoresRightmostOrNull ==
    [][ \A name \in ScanFiles :
          (nread' = 1 /\ call'.op = name[1] /\ call'.fy = name[2]) =>
             ScanStored(db', name) =
                { IF Qualifying(name, call'.row) # {}
                  THEN Rightmost(name, call'.row) ELSE NULL } ]_vars

\* C22, amended: the final amount stored is the value of the right-most
\* qualifying column of the scan range; when no column qualifies, the
\* special-education field is null and the adequacy field is null on a new
\* record and left as it was on a record that exists.
C22_ScanStoresRightmostOrKeeps ==
    [][ \A name \in ScanFiles :
          (nread' = 1 /\ call'.op = name[1] /\ call'.fy = name[2]) =>
             ScanStored(db', name) =
                IF Qualifying(name, call'.row) # {}
                THEN { Rightmost(name, call'.row) }
                ELSE IF name[1] = "import_sped_aid_detailed" \/ ScanStored(db, name) = {}
                THEN { NULL }
                ELSE ScanStored(db, name) ]_vars

\* A row whose last column is below the threshold and whose two columns
\* before it qualify with different values has been stored.
C22_Witness ==
    /\ nread = 1
    /\ call.op = "import_fy12_to_fy21"
    /\ Cell(call.row, Len(call.row) - 1) = Chars("1000")
    /\ Cell(call.row, Len(call.row) - 2) = Chars("25000")
    /\ Cell(call.row, Len(call.row) - 3) = Chars("30000")
    /\ ScanStored(db, <<call.op, call.fy>>) = { Num(Dollars(25000)) }

(***************************************************************************)
(* The statewide totals against the records they are derived from (Spec).  *)
(***************************************************************************)
\* The sum of a column over the records of a fiscal year, nulls counted as
\* zero.
RECURSIVE SumOver(_, _, _)
SumOver(table, col, rows) ==
    IF rows = {} THEN 0
    ELSE LET r == CHOOSE x \in rows : TRUE
         IN  (IF r[col] = NULL THEN 0 ELSE table[r] * ValueOf(r[col]))
             + SumOver(table, col, rows \ {r})
YearSum(table, col, fy) ==
    SumOver(table, col, { r \in BagToSet(table) : r.fiscal_year = fy })

\* C23: in every state of a run, committed or not, and at its end, every
\* statewide_totals row in the store has each category total equal to the
\* sum, nulls counted as zero, of the category's total-aid column over the
\* records of its fiscal year, and total_adm equal to the sum of adm over
\* the adequacy records of the year.
C23_TotalsMatchRecords ==
    \A t \in db.statewide_totals :
        /\ t.total_adequacy_aid =
              YearSum(db.adequacy_aid, "total_adequacy_grant", t.fiscal_year)
        /\ t.total_sped_aid = YearSum(db.sped_aid, "entitlement", t.fiscal_year)
        /\ t.total_building_aid =
              YearSum(db.building_aid, "total_entitlement", t.fiscal_year)
        /\ t.total_charter_aid =
              YearSum(db.charter_school_aid, "total_aid", t.fiscal_year)
        /\ t.total_cte_aid = YearSum(db.cte_aid, "total_payment", t.fiscal_year)
        /\ t.total_kindergarten_aid =
              YearSum(db.kindergarten_aid, "total_aid", t.fiscal_year)
        /\ t.total_adm = YearSum(db.adequacy_aid, "adm", t.fiscal_year)

\* The totals have been computed for a year with adequacy records while the
\* store holds adequacy aid of another year as well.
C23_Witness ==
    /\ status = "done"
    /\ \E t \in db.statewide_totals :
          /\ t.total_adequacy_aid > 0
          /\ t.total_adm > 0
          /\ \E r \in BagToSet(db.adequacy_aid) :
                /\ r.fiscal_year # t.fiscal_year
                /\ r.total_adequacy_grant # NULL
                /\ ValueOf(r.total_adequacy_grant) > 0

\* C24: the adequacy total of a statewide_totals row is the sum of
\* total_adequacy_grant over the adequacy records of its year, and the grand
\* total is that sum plus the five other category totals: swept and
\* total_state_grant of the records contribute to neither.
C24_AdequacyTotalIsGrantSum ==
    \A t \in db.statewide_totals :
        /\ t.total_adequacy_aid =
              YearSum(db.adequacy_aid, "total_adequacy_grant", t.fiscal_year)
        /\ t.total_all_education_aid =
              YearSum(db.adequacy_aid, "total_adequacy_grant", t.fiscal_year)
              + t.total_sped_aid + t.total_building_aid + t.total_charter_aid
              + t.total_cte_aid + t.total_kindergarten_aid

\* The totals have been computed for a year whose adequacy records hold a
\* swept offset and a total_state_grant that is more than the grant.
C24_Witness ==
    /\ status = "done"
    /\ \E t \in db.statewide_totals :
          /\ t.total_adequacy_aid > 0
          /\ YearSum(db.adequacy_aid, "swept", t.fiscal_year) > 0
          /\ YearSum(db.adequacy_aid, "total_state_grant", t.fiscal_year)
                > t.total_adequacy_aid

(***************************************************************************)
(* The records against the registry of municipalities (Spec).              *)
(***************************************************************************)
\* The tables whose records are keyed by a municipality.
MuniTables ==
    { "adequacy_aid", "sped_aid", "building_aid", "cte_aid", "kindergarten_aid" }

\* C25: after any sequence of parser operations, every record of the
\* municipality-keyed tables has a municipality_id that is not null and is
\* the id of a row of municipalities.
C25_RecordsReferenceMunicipality ==
    \A table \in MuniTables :
        \A r \in BagToSet(db[table]) :
            /\ r.municipality_id # NULL
            /\ \E muni \in db.municipalities : r.municipality_id = Num(muni.id)

(***************************************************************************)
(* Rows of the FY04, FY07, FY08 and FY09 files, with the grant and the     *)
(* swept column one by one (SpecEra).                                      *)
(***************************************************************************)
MaxEraRows == 2

EraFiles ==
    { <<"import_fy04_aid", 2004>>, <<"import_fy07", 2007>>,
      <<"import_fy08", 2008>>, <<"import_fy09", 2009>> }

\* The columns (0-based) the parser reads the grant and the swept from.
EraGrantCol(name) ==
    CASE name[1] = "import_fy04_aid" -> 5
      [] name[1] = "import_fy08" -> 6
      [] OTHER -> 2
EraSweptCol(name) == IF name[1] = "import_fy08" THEN 7 ELSE 4

\* The rows: a label, a grant cell, a swept cell, and 500 in the other
\* columns.
EraLabels == { Chars("Concord"), Chars("newcastle") }
EraKinds ==
    { <<label, grant, swept>> :
        label \in EraLabels,
        grant \in { Chars("25000"), Chars("n/a") },
        swept \in { Chars("1200"), Chars("n/a") } }
EraRow(name, kind) ==
    [ i \in 1..Layout[name[1]][1] |->
        IF i = 1 THEN kind[1]
        ELSE IF i = EraGrantCol(name) + 1 THEN kind[2]
        ELSE IF i = EraSweptCol(name) + 1 THEN kind[3]
        ELSE Chars("500") ]

InitEra ==
    /\ db = create_tables
    /\ pos = 0
    /\ nread = 0
    /\ status = "running"
    /\ StoreIdle
    /\ NormIdle
    /\ MainIdle

\* The parser of an era processes one more row of its file.
ParseEraRow(name) ==
    \E kind \in EraKinds :
        /\ nread < MaxEraRows
        /\ Position(name[1], name[2]) >= pos
        /\ db' = ImportFile(db, name[1], name[2], << EraRow(name, kind) >>)
        /\ call' = [ NoCall EXCEPT
                       !.op = name[1],
                       !.fy = name[2],
                       !.name = kind[1],
                       !.row = EraRow(name, kind) ]
        /\ pos' = Position(name[1], name[2])
        /\ nread' = nread + 1
        /\ UNCHANGED <<status, resolved, normVars, mainVars>>

ParseFy04Row == ParseEraRow(<<"import_fy04_aid", 2004>>)
ParseFy07Row == ParseEraRow(<<"import_fy07", 2007>>)
ParseFy08Row == ParseEraRow(<<"import_fy08", 2008>>)
ParseFy09Row == ParseEraRow(<<"import_fy09", 2009>>)

NextEra == ParseFy04Row \/ ParseFy07Row \/ ParseFy08Row \/ ParseFy09Row

SpecEra == InitEra /\ [][NextEra]_vars

\* C26: after a row with raw label s is accepted by an era parser, the
\* record of the row's fiscal year is attached to the municipality whose
\* name is normalize_name(s).
C26_RecordAttachedToNormalizedName ==
    [][ \A name \in EraFiles :
          (nread' = nread + 1 /\ call'.op = name[1]) =>
             \E muni \in db'.municipalities :
                /\ muni.name = normalize_name(call'.name)
                /\ \E r \in BagToSet(db'.adequacy_aid) :
                      /\ r.fiscal_year = name[2]
                      /\ r.municipality_id = Num(muni.id) ]_vars

\* C30: every adequacy record of the fiscal years 2004, 2007, 2008 and 2009
\* has total_state_grant equal to total_adequacy_grant plus swept, a null
\* value counted as zero, after any sequence of accepted rows.
C30_StateGrantIsGrantPlusSwept ==
    \A r \in BagToSet(db.adequacy_aid) :
        r.fiscal_year \in { 2004, 2007, 2008, 2009 } =>
            OrZero(r.total_state_grant) =
                OrZero(r.total_adequacy_grant) + OrZero(r.swept)

\* C27: when a run has ended, every row of municipalities is referenced by a
\* record of one of the category tables: no parser has created a
\* municipality for a row from which it stored no record.
C27_MunicipalitiesAreReferenced ==
    status = "done" =>
        \A muni \in db.municipalities :
            \E table \in MuniTables :
                \E r \in BagToSet(db[table]) : r.municipality_id = Num(muni.id)

(***************************************************************************)
(* Rows of the special-education, building, career/technical and           *)
(* kindergarten files, with the amount column apart from the other         *)
(* columns (SpecCategory).                                                 *)
(***************************************************************************)
MaxCategoryRows == 2

MultiYearFile == <<"import_building_aid", 2025>>
CategoryFiles ==
    { <<"import_sped_catastrophic", 2008>>, <<"import_building_aid", 2008>>,
      MultiYearFile, <<"import_cte_aid", 2008>>,
      <<"import_kindergarten_aid", 2019>> }

\* The table a parser stores in, the column (0-based) it reads the amount
\* from (the FY 2027 column of the multi-year file), and the field and the
\* fiscal year it stores the amount under.
CategoryTable(name) ==
    CASE name[1] = "import_sped_catastrophic" -> "sped_aid"
      [] name[1] = "import_building_aid" -> "building_aid"
      [] name[1] = "import_cte_aid" -> "cte_aid"
      [] name[1] = "import_kindergarten_aid" -> "kindergarten_aid"
AmountCol(name) ==
    CASE name = MultiYearFile -> 1
      [] name[1] = "import_sped_catastrophic" -> 6
      [] name[1] = "import_building_aid" -> 4
      [] name[1] = "import_cte_aid" -> 3
      [] name[1] = "import_kindergarten_aid" -> 6
AmountField(name) ==
    CASE name[1] = "import_sped_catastrophic" -> "entitlement"
      [] name[1] = "import_building_aid" -> "total_entitlement"
      [] name[1] = "import_cte_aid" -> "total_payment"
      [] name[1] = "import_kindergarten_aid" -> "total_aid"
AmountYear(name) == IF name = MultiYearFile THEN 2027 ELSE name[2]

\* The rows: Concord, the text of the amount column, and the text of every
\* other column.
CategoryKinds ==
    { <<amount, other>> :
        amount \in { Chars("25000"), Chars("30000"), Chars("0"), Chars("-"),
                     Chars("(200)"), Chars("n/a") },
        other \in { Chars("25000"), Chars("n/a") } }
CategoryRow(name, kind) ==
    [ i \in 1..(IF name = MultiYearFile THEN 3 ELSE Layout[name[1]][1]) |->
        IF i = (IF name = MultiYearFile THEN 0 ELSE Layout[name[1]][2]) + 1
        THEN Chars("Concord")
        ELSE IF i = AmountCol(name) + 1 THEN kind[1]
        ELSE kind[2] ]

\* The records of a fiscal year in a table.
RecordsOf(d, table, fy) == { r \in BagToSet(d[table]) : r.fiscal_year = fy }

InitCategory ==
    /\ db = create_tables
    /\ pos = 0
    /\ nread = 0
    /\ status = "running"
    /\ StoreIdle
    /\ NormIdle
    /\ MainIdle

\* A parser processes one more row of one of its files; the call keeps
\* whether a record of the amount's year was there before, and its amount.
ParseCategoryRow(name) ==
    \E kind \in CategoryKinds :
        /\ nread < MaxCategoryRows
        /\ Position(name[1], name[2]) >= pos
        /\ db' = ImportFile(db, name[1], name[2], << CategoryRow(name, kind) >>)
        /\ call' = [ NoCall EXCEPT
                       !.op = name[1],
                       !.fy = name[2],
                       !.name = Chars("Concord"),
                       !.existed =
                           RecordsOf(db, CategoryTable(name), AmountYear(name)) # {},
                       !.row = CategoryRow(name, kind) ]
        /\ pos' = Position(name[1], name[2])
        /\ nread' = nread + 1
        /\ UNCHANGED <<status, resolved, normVars, mainVars>>

ParseSpedCatastrophicRow == ParseCategoryRow(<<"import_sped_catastrophic", 2008>>)
ParseSingleYearBuildingRow == ParseCategoryRow(<<"import_building_aid", 2008>>)
ParseMultiYearBuildingRow == ParseCategoryRow(MultiYearFile)
ParseCteAidRow == ParseCategoryRow(<<"import_cte_aid", 2008>>)
ParseKindergartenAidRow == ParseCategoryRow(<<"import_kindergarten_aid", 2019>>)

NextCategory ==
    \/ ParseSpedCatastrophicRow \/ ParseSingleYearBuildingRow
    \/ ParseMultiYearBuildingRow \/ ParseCteAidRow \/ ParseKindergartenAidRow

SpecCategory == InitCategory /\ [][NextCategory]_vars

\* The fields of a record apart from its municipality.
FieldsOf(r) == [ c \in DOMAIN r \ {"municipality_id"} |-> r[c] ]

C29_OnlyPositiveCellsWrite ==
    [][ (nread' = nread + 1 /\ call'.op = MultiYearFile[1]
                            /\ call'.fy = MultiYearFile[2]) =>
           \A yr \in DOMAIN year_cols(BuildingHeader) :
              IF /\ parse_money(Cell(call'.row, year_cols(BuildingHeader)[yr])) # NULL
                 /\ ValueOf(parse_money(Cell(call'.row,
                                             year_cols(BuildingHeader)[yr]))) > 0
              THEN { r.total_entitlement : r \in RecordsOf(db', "building_aid", yr) }
                   = { parse_money(Cell(call'.row, year_cols(BuildingHeader)[yr])) }
              ELSE RecordsOf(db', "building_aid", yr)
                   = RecordsOf(db, "building_aid", yr) ]_vars

\* A row with a negative amount in the FY 2027 column has been processed
\* while the store held a record for 2027, and the record is still there.
C29_Witness ==
    /\ nread = 2
    /\ call.op = MultiYearFile[1]
    /\ call.fy = MultiYearFile[2]
    /\ call.existed
    /\ Cell(call.row, 1) = Chars("(200)")
    /\ \E r \in RecordsOf(db, "building_aid", 2027) :
          r.total_entitlement = Num(Dollars(30000))

=============================================================================
